---- MODULE Spec2Model ----
(***************************************************************************)
(* Dealer_List_Images: the click-hard inventory harvest                    *)
(* (collect_inventory_clickhard), the dealer-directory harvest             *)
(* (collect_all_dealers) and the vehicle-name resolver                     *)
(* (extract_vehicle_name) of src/dealers_scrape_clickhard.py.              *)
(*                                                                         *)
(* A listing URL is represented by its rank in the lexicographic order of  *)
(* Python strings, so sorted() is the ascending order of ranks.  The clock *)
(* counts whole seconds from the moment hard_deadline is computed.         *)
(***************************************************************************)
EXTENDS Integers, Sequences, FiniteSets, TLC

\* ---------------------------------------------------------------- bounds
MaxLinks == 3
MaxRoundLimit == 4
MaxWatchedRounds == 3
MaxDealerNames == 2
MaxAnchors == 3
MaxTitles == 4
MaxUrls == 3
MaxWords == 3
MaxSlugWords == 3
MaxRefs == 2
MaxTags == 1
MaxElems == 2
MaxImages == 2
MaxChunks == 2

\* ------------------------------------------------------ program constants
HardStopFloor == 240
DeadlineFactor == 4
SecondaryWaitCap == 10
StagnationLimit == 3
DrainPasses == 3

Links == 1..MaxLinks
\* slow_wait values: one with 4*W below the 240 s floor and W \div 2 below
\* the 10 s cap, one with 4*W above the floor and W \div 2 above the cap.
SlowWaits == {8, 65}
\* how long one jiggle (two scripts, 1.1 s of sleeps) may take
Durations == {30, 150}
\* the simulated pages: "any" behaves arbitrarily and its interactions may
\* fail; "stuck" always shows a trigger and never shows more links; "two"
\* shows a trigger for exactly two clicks, each of which adds links.
Scenarios == {"any", "stuck", "two"}

VARIABLES
    scenario,           \* which simulated page the harvest runs against
    page,               \* listing links in the DOM of the scripted page "two"
    incoming,           \* links a click has requested that are not in the DOM yet
    slow_wait,          \* argument slow_wait
    max_rounds,         \* argument max_rounds
    pc,                 \* position in collect_inventory_clickhard
    unique,             \* local unique
    initial,            \* the value of unique before the loop
    no_growth_rounds,   \* local no_growth_rounds
    rounds,             \* local rounds
    now,                \* time.time(), seconds since hard_deadline was set
    hard_deadline,      \* local hard_deadline
    end,                \* local end / end2 of the running poll
    jig,                \* jiggle passes done on the no-trigger exit
    exitPath,           \* which return statement ended the call
    result,             \* the returned list
    watch,              \* whether the scans and the rounds of the call are recorded
                        \* in the four variables that follow
    now_unique,         \* local now_unique, the last scan of the running poll
                        \* (the value is not read again once the poll ran out)
    clicks,             \* the calls of click_hard in the current round, in order:
                        \* "first" (returned true), "failed" (the first call,
                        \* returned false), "retry", "extra"
    head,               \* the size of unique when the current round began
    dry,                \* finished rounds since the last one in which unique grew
    dpc,                \* position in collect_all_dealers
    anchors,            \* hrefs of the author/dealers anchors in the DOM, in page order
    last,               \* local last
    stagn,              \* local stagn
    hrefs,              \* the list collect_all_dealers returns
    npc,                \* position in extract_vehicle_name
    raw_name,           \* crawl's local raw_name
    vsoup,              \* argument vsoup, the parsed detail page
    vurl,               \* argument vurl
    vname,              \* the returned name
    tpc,                \* position in a call of a title function
    tfun,               \* which title function the call is of
    ttitle,             \* the words and gaps the argument is written with
    targ,               \* argument t
    tres,               \* the returned value
    tprev,              \* the earlier call of _score_title, before a year was added
    spc,                \* position in slug_from_url
    swords,             \* the words of the URL's last path segment
    surl,               \* argument vurl of slug_from_url
    sres,               \* the returned slug
    ipc,                \* position in the calls of extract_images
    ibase,              \* argument listing_url
    irefs,              \* the references of the page, in scan order
    iout1,              \* the list the first call returned
    iout2,              \* the list the second call returned
    epc,                \* position in extract_images on a page of elements
    epage,              \* argument soup: image elements, hyperlinks, style attributes
    eout,               \* the returned list
    fpc,                \* position in find_show_more
    fpage,              \* the elements of the page, in document order
    fraise,             \* the lookup in which the driver raises, 0 for none
    fres,               \* the returned element: its position in fpage, 0 for None
    cpc,                \* position in click_hard
    cdriver,            \* which statements of the call raise
    cok,                \* local ok
    ctried,             \* the strategies attempted so far, in order
    cret,               \* the returned value
    wpc,                \* position in the download loop of crawl
    run,                \* "first" for the first run of the script, "later" after it
    imgk,               \* local k, counted over all vehicles of the run
    body,               \* for every image the number of chunks the server sends
    dest,               \* for every image the size of the file dest, Absent if none
    tmp,                \* for every image the size of the .part file, Absent if none
    before,             \* dest as it was when the run began
    outcome             \* what the run has done with every image

hvars == <<watch, scenario, page, incoming, slow_wait, max_rounds, pc, unique, initial,
           no_growth_rounds, rounds, now, hard_deadline, end, jig, exitPath,
           result, now_unique, clicks, head, dry>>

dvars == <<dpc, anchors, last, stagn, hrefs>>

nvars == <<npc, vsoup, vurl, vname, raw_name>>

tvars == <<tpc, tfun, ttitle, targ, tres, tprev>>

svars == <<spc, swords, surl, sres>>

ivars == <<ipc, ibase, irefs, iout1, iout2>>

evars == <<epc, epage, eout>>

\* the variables of the calls modelled after extract_images
fvars == <<fpc, fpage, fraise, fres>>

cvars == <<cpc, cdriver, cok, ctried, cret>>

wvars == <<wpc, run, imgk, body, dest, tmp, before, outcome>>

xvars == <<evars, fvars, cvars, wvars>>

vars == <<hvars, dvars, nvars, tvars, svars, ivars, xvars>>

\* ------------------------------------------------------------- helpers
Max(a, b) == IF a >= b THEN a ELSE b
Min(a, b) == IF a <= b THEN a ELSE b

Range(s) == {s[i] : i \in 1..Len(s)}

\* list.insert at the place that keeps s ascending
RECURSIVE InsertSorted(_, _)
InsertSorted(x, s) ==
    IF s = <<>> THEN <<x>>
    ELSE IF x <= Head(s) THEN <<x>> \o s
    ELSE <<Head(s)>> \o InsertSorted(x, Tail(s))

\* list(unique) without the sort: some order of the members, here descending
RECURSIVE UnsortedList(_)
UnsortedList(S) ==
    IF S = {} THEN <<>>
    ELSE LET x == CHOOSE y \in S : \A z \in S : z <= y
         IN  <<x>> \o UnsortedList(S \ {x})

\* sorted(unique): the members of a set as an ascending list
RECURSIVE SortedList(_)
SortedList(S) ==
    IF S = {} THEN <<>>
    ELSE LET x == CHOOSE y \in S : TRUE
         IN  InsertSorted(x, SortedList(S \ {x}))

\* line 400: the loop condition
LoopGuardNoLimit(r, m, t, d) == t < d
LoopGuardNoDeadline(r, m, t, d) == r < m
LoopGuard(r, m, t, d) == r < m /\ t < d

\* lines 420, 438: does the scan count as growth
GrowsOrEqual(scan, old) == Cardinality(scan) >= Cardinality(old)
Grows(scan, old) == Cardinality(scan) > Cardinality(old)

\* line 442: the stagnation threshold
StagnatedLate(n) == n > StagnationLimit
Stagnated(n) == n >= StagnationLimit

\* line 429 with the extra attempt made on every stagnant round
AnyStagnation(n) == n >= 1

\* line 429: is this the first stagnant round in a row
FirstStagnation(n) == n = 1

\* line 398: hard_deadline - time.time()
HardStop(w) == Max(HardStopFloor, w * DeadlineFactor)

\* line 434: end2 - time.time()
SecondaryWait(w) == Min(SecondaryWaitCap, w \div 2)

\* click_hard: raises[i] says whether strategy i raises; the result is ok
ClickStrategies == 1..4
ClickOutcomes == [ClickStrategies -> BOOLEAN]
ClickHard(raises) == \E i \in ClickStrategies : ~raises[i]

\* ------------------------------------------------------- string data
GenericBadWords == {
    <<"s", "u", "m", "m", "a", "r", "y">>,
    <<"d", "e", "t", "a", "i", "l", "s">>,
    <<"l", "i", "s", "t", "i", "n", "g">>,
    <<"i", "n", "v", "e", "n", "t", "o", "r", "y">>,
    <<"v", "e", "h", "i", "c", "l", "e">>,
    <<"c", "a", "r">>,
    <<"c", "a", "r", "s">>,
    <<"s", "h", "o", "p">>,
    <<"c", "a", "t", "a", "l", "o", "g">>,
    <<"c", "a", "t", "e", "g", "o", "r", "y">>,
    <<"b", "u", "y">>,
    <<"s", "e", "l", "l">>,
    <<"r", "e", "s", "u", "l", "t">>,
    <<"r", "e", "s", "u", "l", "t", "s">>,
    <<"s", "e", "a", "r", "c", "h">>,
    <<"p", "r", "o", "f", "i", "l", "e">>,
    <<"d", "e", "a", "l", "e", "r">>,
    <<"a", "c", "c", "o", "u", "n", "t">>,
    <<"a", "u", "t", "h", "o", "r">>,
    <<"p", "a", "g", "e">>}

\* raw texts a page may carry in its title metadata, headings and breadcrumbs
TitleList == <<
    \* "2019 Toyota Aqua - AutoStream Dealer"
    <<"2", "0", "1", "9", " ", "T", "o", "y", "o", "t", "a", " ", "A", "q", "u", "a", " ", "-", " ", "A", "u", "t", "o", "S", "t", "r", "e", "a", "m", " ", "D", "e", "a", "l", "e", "r">>,
    \* "Vehicle Summary"
    <<"V", "e", "h", "i", "c", "l", "e", " ", "S", "u", "m", "m", "a", "r", "y">>,
    \* "  "
    <<" ", " ">>,
    \* "Honda Fit"
    <<"H", "o", "n", "d", "a", " ", "F", "i", "t">>,
    \* "Toyota_2019_Aqua"
    <<"T", "o", "y", "o", "t", "a", "_", "2", "0", "1", "9", "_", "A", "q", "u", "a">>,
    \* "Car Listing | Nissan Leaf 2015"
    <<"C", "a", "r", " ", "L", "i", "s", "t", "i", "n", "g", " ", "|", " ", "N", "i", "s", "s", "a", "n", " ", "L", "e", "a", "f", " ", "2", "0", "1", "5">>,
    \* "X1"
    <<"X", "1">>,
    \* "Dealer Page : BMW"
    <<"D", "e", "a", "l", "e", "r", " ", "P", "a", "g", "e", " ", ":", " ", "B", "M", "W">>>>

\* listing URLs
UrlList == <<
    \* "https://s/listings/toyota-aqua-2019-48213"
    <<"h", "t", "t", "p", "s", ":", "/", "/", "s", "/", "l", "i", "s", "t", "i", "n", "g", "s", "/", "t", "o", "y", "o", "t", "a", "-", "a", "q", "u", "a", "-", "2", "0", "1", "9", "-", "4", "8", "2", "1", "3">>,
    \* "https://s"
    <<"h", "t", "t", "p", "s", ":", "/", "/", "s">>,
    \* "https://s/listings/car-1234/?ref=1"
    <<"h", "t", "t", "p", "s", ":", "/", "/", "s", "/", "l", "i", "s", "t", "i", "n", "g", "s", "/", "c", "a", "r", "-", "1", "2", "3", "4", "/", "?", "r", "e", "f", "=", "1">>,
    \* "https://s/listings/BMW-x5#top"
    <<"h", "t", "t", "p", "s", ":", "/", "/", "s", "/", "l", "i", "s", "t", "i", "n", "g", "s", "/", "B", "M", "W", "-", "x", "5", "#", "t", "o", "p">>,
    \* "https://s/listings/"
    <<"h", "t", "t", "p", "s", ":", "/", "/", "s", "/", "l", "i", "s", "t", "i", "n", "g", "s", "/">>>>

\* the literal "Car" of line 181
DefaultName == <<"C", "a", "r">>

LdName1 == <<"2", "0", "1", "8", " ", "S", "u", "z", "u", "k", "i", " ", "A", "l", "t", "o">>

LdName2 == <<"S", "u", "z", "u", "k", "i">>

LdName3 == <<"D", "e", "a", "l", "e", "r">>

\* ------------------------------------------------------------- strings
\* A Python str is the sequence of its characters, each a one-character
\* string; the three non-ASCII separators are written by their names.
UpperLetters == <<"A", "B", "C", "D", "E", "F", "G", "H", "I", "J", "K", "L", "M",
                  "N", "O", "P", "Q", "R", "S", "T", "U", "V", "W", "X", "Y", "Z">>
LowerLetters == <<"a", "b", "c", "d", "e", "f", "g", "h", "i", "j", "k", "l", "m",
                  "n", "o", "p", "q", "r", "s", "t", "u", "v", "w", "x", "y", "z">>
DigitChars == {"0", "1", "2", "3", "4", "5", "6", "7", "8", "9"}

IsUpper(c) == \E i \in DOMAIN UpperLetters : UpperLetters[i] = c
IsLower(c) == \E i \in DOMAIN LowerLetters : LowerLetters[i] = c
\* [a-zA-Z]
IsAlpha(c) == IsUpper(c) \/ IsLower(c)
\* \d
IsDigit(c) == c \in DigitChars
\* [a-z0-9]
IsTokenChar(c) == IsLower(c) \/ IsDigit(c)
\* \w
IsWordChar(c) == IsAlpha(c) \/ IsDigit(c) \/ c = "_"
\* \s
IsSpace(c) == c \in {" ", "\t", "\n"}

ToLower(c) ==
    IF IsUpper(c)
    THEN LowerLetters[CHOOSE i \in DOMAIN UpperLetters : UpperLetters[i] = c]
    ELSE c
ToUpper(c) ==
    IF IsLower(c)
    THEN UpperLetters[CHOOSE i \in DOMAIN LowerLetters : LowerLetters[i] = c]
    ELSE c

\* str.lower
StrLower(t) == [i \in 1..Len(t) |-> ToLower(t[i])]

\* str.strip
Strip(t) ==
    LET keep == {i \in 1..Len(t) : ~IsSpace(t[i])}
    IN  IF keep = {} THEN <<>>
        ELSE SubSeq(t, CHOOSE i \in keep : \A j \in keep : i <= j,
                       CHOOSE i \in keep : \A j \in keep : j <= i)

\* re.sub(r"\s+", " ", t), from index i on
RECURSIVE CollapseFrom(_, _)
CollapseFrom(t, i) ==
    IF i > Len(t) THEN <<>>
    ELSE IF ~IsSpace(t[i]) THEN <<t[i]>> \o CollapseFrom(t, i + 1)
    ELSE IF i > 1 /\ IsSpace(t[i - 1]) THEN CollapseFrom(t, i + 1)
    ELSE <<" ">> \o CollapseFrom(t, i + 1)

\* re.sub(r"\s+", " ", t).strip()
NormalizeSpaces(t) == Strip(CollapseFrom(t, 1))

\* re.findall(r"[a-z0-9]+", tl), from index i on; cur is the run being read
RECURSIVE TokensFrom(_, _, _)
TokensFrom(t, i, cur) ==
    IF i > Len(t) THEN (IF cur = <<>> THEN <<>> ELSE <<cur>>)
    ELSE IF IsTokenChar(t[i]) THEN TokensFrom(t, i + 1, Append(cur, t[i]))
    ELSE (IF cur = <<>> THEN <<>> ELSE <<cur>>) \o TokensFrom(t, i + 1, <<>>)

\* re.findall(r"[a-z0-9]+", tl)
FindTokens(tl) == TokensFrom(tl, 1, <<>>)

\* str.split(), from index i on; cur is the word being read
RECURSIVE WordsFrom(_, _, _)
WordsFrom(t, i, cur) ==
    IF i > Len(t) THEN (IF cur = <<>> THEN <<>> ELSE <<cur>>)
    ELSE IF ~IsSpace(t[i]) THEN WordsFrom(t, i + 1, Append(cur, t[i]))
    ELSE (IF cur = <<>> THEN <<>> ELSE <<cur>>) \o WordsFrom(t, i + 1, <<>>)

\* str.split()
SplitWords(t) == WordsFrom(t, 1, <<>>)

\* sum(1 for x in tokens if x in GENERIC_BAD_WORDS)
CountGeneric(tokens) ==
    Cardinality({i \in 1..Len(tokens) : tokens[i] \in GenericBadWords})

\* re.search(r"\b(19|20)\d{2}\b", t)
HasYear(t) ==
    \E i \in 1..(Len(t) - 3) :
        /\ (t[i] = "1" /\ t[i + 1] = "9") \/ (t[i] = "2" /\ t[i + 1] = "0")
        /\ IsDigit(t[i + 2])
        /\ IsDigit(t[i + 3])
        /\ i = 1 \/ ~IsWordChar(t[i - 1])
        /\ i + 3 = Len(t) \/ ~IsWordChar(t[i + 4])

\* lines 50-57: _score_title
ScoreTitle(t) ==
    LET tokens == FindTokens(StrLower(t))
        bad == CountGeneric(tokens)
        year == IF HasYear(t) THEN 1 ELSE 0
        length_bonus == Min(Len(tokens), 8)
    IN  year * 5 + length_bonus - bad * 2

\* [\-\–\—\:\|\·]
IsSeparator(c) == c \in {"-", "EN DASH", "EM DASH", ":", "|", "MIDDLE DOT"}

\* the last index of the whitespace run that starts at i
SpaceRunEnd(t, i) ==
    CHOOSE j \in i..Len(t) :
        /\ \A k \in i..j : IsSpace(t[k])
        /\ j = Len(t) \/ ~IsSpace(t[j + 1])

\* where a match of \s+[\-\–\—\:\|\·]\s+ that starts at s ends; 0 if none does
SeparatorMatchEnd(t, s) ==
    IF ~IsSpace(t[s]) THEN 0
    ELSE LET e == SpaceRunEnd(t, s) + 1
         IN  IF e + 1 <= Len(t) /\ IsSeparator(t[e]) /\ IsSpace(t[e + 1])
             THEN SpaceRunEnd(t, e + 1)
             ELSE 0

\* re.split(r"\s+[\-\–\—\:\|\·]\s+", t): i is the scan position, start the
\* first index of the piece being read
RECURSIVE ReSplitFrom(_, _, _)
ReSplitFrom(t, i, start) ==
    IF i > Len(t) THEN <<SubSeq(t, start, Len(t))>>
    ELSE LET f == SeparatorMatchEnd(t, i)
         IN  IF f > 0
             THEN <<SubSeq(t, start, i - 1)>> \o ReSplitFrom(t, f + 1, f + 1)
             ELSE ReSplitFrom(t, i + 1, start)

\* lines 44-48: _split_title_candidates
SplitTitleCandidates(t) ==
    LET pieces == ReSplitFrom(t, 1, 1)
        kept == SelectSeq(pieces, LAMBDA p : p # <<>> /\ Len(Strip(p)) >= 2)
        parts == [i \in 1..Len(kept) |-> Strip(kept[i])]
    IN  IF parts # <<>> THEN parts ELSE <<Strip(t)>>

\* max by _score_title that keeps the last part with the greatest score
MaxByScoreLast(parts) ==
    LET sc == [i \in 1..Len(parts) |-> ScoreTitle(parts[i])]
    IN  parts[CHOOSE i \in 1..Len(parts) :
                /\ \A j \in 1..Len(parts) : sc[j] <= sc[i]
                /\ \A j \in (i + 1)..Len(parts) : sc[j] < sc[i]]

\* max(parts, key=_score_title): the first part with the greatest score
MaxByScore(parts) ==
    LET sc == [i \in 1..Len(parts) |-> ScoreTitle(parts[i])]
    IN  parts[CHOOSE i \in 1..Len(parts) :
                /\ \A j \in 1..Len(parts) : sc[j] <= sc[i]
                /\ \A j \in 1..(i - 1) : sc[j] < sc[i]]

\* lines 59-66: _clean_title_piece
CleanTitlePiece(t) ==
    LET parts == SplitTitleCandidates(t)
    IN  IF Len(parts) = 1 THEN parts[1] ELSE MaxByScore(parts)

\* lines 102-111: looks_generic
LooksGeneric(t) ==
    LET tl == StrLower(t)
        letters == Cardinality({i \in 1..Len(t) : IsAlpha(t[i])})
        toks == FindTokens(tl)
        gen == CountGeneric(toks)
    IN  IF letters < 3 THEN TRUE
        ELSE IF toks = <<>> THEN TRUE
        ELSE gen >= Max(1, Len(toks) \div 2)

\* the first index from i on whose character is in chars; Len(t) + 1 if none
IndexOfAny(t, chars, i) ==
    LET hits == {j \in i..Len(t) : t[j] \in chars}
    IN  IF hits = {} THEN Len(t) + 1 ELSE CHOOSE j \in hits : \A k \in hits : j <= k

\* urlparse(u) of an absolute or relative URL:
\* scheme://netloc/path;params?query#fragment
\* the index of the colon that ends the scheme; 0 if u has no scheme
SchemeEnd(u) ==
    LET colon == IndexOfAny(u, {":"}, 1)
    IN  IF /\ colon <= Len(u)
           /\ colon > 1
           /\ IsAlpha(u[1])
           /\ \A i \in 1..(colon - 1) :
                  IsAlpha(u[i]) \/ IsDigit(u[i]) \/ u[i] \in {"+", "-", "."}
        THEN colon ELSE 0

\* where the path starts: after the netloc that "//" at rest announces, or
\* at rest itself if there is none
PathStart(u, rest) ==
    IF rest + 1 <= Len(u) /\ u[rest] = "/" /\ u[rest + 1] = "/"
    THEN IndexOfAny(u, {"/", "?", "#"}, rest + 2)
    ELSE rest

\* where the params of the path's last segment start (its first ";")
ParamsStart(u, pathStart, quest) ==
    LET sl == {j \in pathStart..(quest - 1) : u[j] = "/"}
        lastSlash == IF sl = {} THEN pathStart
                     ELSE CHOOSE j \in sl : \A k \in sl : k <= j
    IN  Min(IndexOfAny(u, {";"}, lastSlash), quest)

\* the six components, cut at the colon of the scheme (0 if none), the
\* start of the path, ";" (semi), "?" (quest) and "#" (hash)
UrlParts(u, colon, pathStart, semi, quest, hash) ==
    [scheme   |-> IF colon > 0 THEN StrLower(SubSeq(u, 1, colon - 1)) ELSE <<>>,
     netloc   |-> IF pathStart > colon + 1
                  THEN SubSeq(u, colon + 3, pathStart - 1) ELSE <<>>,
     path     |-> SubSeq(u, pathStart, semi - 1),
     params   |-> SubSeq(u, semi + 1, quest - 1),
     query    |-> SubSeq(u, quest + 1, hash - 1),
     fragment |-> SubSeq(u, hash + 1, Len(u))]

UrlFromHash(u, colon, pathStart, quest, hash) ==
    UrlParts(u, colon, pathStart, ParamsStart(u, pathStart, quest), quest, hash)

UrlFromPath(u, colon, pathStart, hash) ==
    UrlFromHash(u, colon, pathStart,
                Min(IndexOfAny(u, {"?"}, pathStart), hash), hash)

UrlFromScheme(u, colon, pathStart) ==
    UrlFromPath(u, colon, pathStart, IndexOfAny(u, {"#"}, pathStart))

UrlParse(u) == UrlFromScheme(u, SchemeEnd(u), PathStart(u, SchemeEnd(u) + 1))

\* path.rstrip("/")
RStripSlash(p) ==
    LET keep == {i \in 1..Len(p) : p[i] # "/"}
    IN  IF keep = {} THEN <<>>
        ELSE SubSeq(p, 1, CHOOSE i \in keep : \A j \in keep : j <= i)

\* path.split("/")[-1]
LastSegment(p) ==
    LET sl == {i \in 1..Len(p) : p[i] = "/"}
    IN  IF sl = {} THEN p
        ELSE SubSeq(p, (CHOOSE i \in sl : \A j \in sl : j <= i) + 1, Len(p))

\* re.sub(r"-\d+$", "", slug): a tail of any number of digits
StripIdTailAny(slug) ==
    LET tails == {h \in 1..Len(slug) :
                    /\ slug[h] = "-"
                    /\ Len(slug) - h >= 1
                    /\ \A k \in (h + 1)..Len(slug) : IsDigit(slug[k])}
    IN  IF tails = {} THEN slug
        ELSE SubSeq(slug, 1, (CHOOSE h \in tails : \A k \in tails : h <= k) - 1)

\* re.sub(r"-\d{3,}$", "", slug)
StripIdTail(slug) ==
    LET tails == {h \in 1..Len(slug) :
                    /\ slug[h] = "-"
                    /\ Len(slug) - h >= 3
                    /\ \A k \in (h + 1)..Len(slug) : IsDigit(slug[k])}
    IN  IF tails = {} THEN slug
        ELSE SubSeq(slug, 1, (CHOOSE h \in tails : \A k \in tails : h <= k) - 1)

\* str.isupper: some cased character, none of them lower-case
StrIsUpper(w) ==
    /\ \E i \in 1..Len(w) : IsUpper(w[i])
    /\ \A i \in 1..Len(w) : ~IsLower(w[i])

\* str.capitalize
Capitalize(w) ==
    [i \in 1..Len(w) |-> IF i = 1 THEN ToUpper(w[i]) ELSE ToLower(w[i])]

\* " ".join(words), from word i on
RECURSIVE JoinFrom(_, _)
JoinFrom(words, i) ==
    IF i > Len(words) THEN <<>>
    ELSE IF i = Len(words) THEN words[i]
    ELSE words[i] \o <<" ">> \o JoinFrom(words, i + 1)

\* line 94: slug.replace("-", " ")
DashesToSpaces(slug) ==
    [i \in 1..Len(slug) |-> IF slug[i] = "-" THEN " " ELSE slug[i]]

\* line 97: w if w.isupper() else w.capitalize(), for every word
CaseWords(words) ==
    [i \in 1..Len(words) |->
        IF StrIsUpper(words[i]) THEN words[i] ELSE Capitalize(words[i])]

\* lines 90-98: the title-cased slug of the last path segment
SlugOfSegment(slug) ==
    IF slug = <<>> THEN <<>>
    ELSE JoinFrom(CaseWords(SplitWords(NormalizeSpaces(
             DashesToSpaces(StripIdTail(slug))))), 1)

\* lines 86-100: slug_from_url (urlparse accepts every URL of the model,
\* so the except branch of line 99 is not taken)
SlugFromUrl(u) == SlugOfSegment(LastSegment(RStripSlash(UrlParse(u).path)))

\* ------------------------------------------------- the parsed page
\* A JSON value is [k, s, items, pairs]: k is "str" (s its text), "list"
\* (items its elements), "dict" (pairs its <<key, value>> entries, in
\* order), "num", or "malformed" for a script json.loads rejects.
JStr(s) == [k |-> "str", s |-> s, items |-> <<>>, pairs |-> <<>>]
JNum == [k |-> "num", s |-> <<>>, items |-> <<>>, pairs |-> <<>>]
JList(items) == [k |-> "list", s |-> <<>>, items |-> items, pairs |-> <<>>]
JDict(pairs) == [k |-> "dict", s |-> <<>>, items |-> <<>>, pairs |-> pairs]
JMalformed == [k |-> "malformed", s |-> <<>>, items |-> <<>>, pairs |-> <<>>]

\* lines 149-156: pull_names, the names in the order they are appended
RECURSIVE PullNames(_)
RECURSIVE PullNamesOver(_, _)
PullNames(obj) ==
    IF obj.k = "dict"
    THEN LET named == {i \in 1..Len(obj.pairs) : obj.pairs[i][1] = "name"}
             own == IF named = {} THEN <<>>
                    ELSE LET v == obj.pairs[CHOOSE i \in named : TRUE][2]
                         IN  IF v.k = "str" THEN <<v.s>> ELSE <<>>
         IN  own \o PullNamesOver([i \in 1..Len(obj.pairs) |-> obj.pairs[i][2]], 1)
    ELSE IF obj.k = "list" THEN PullNamesOver(obj.items, 1)
    ELSE <<>>
PullNamesOver(values, i) ==
    IF i > Len(values) THEN <<>>
    ELSE PullNames(values[i]) \o PullNamesOver(values, i + 1)

\* the concatenation of the lists f[1], f[2], ...
RECURSIVE Flatten(_, _)
Flatten(f, i) == IF i > Len(f) THEN <<>> ELSE f[i] \o Flatten(f, i + 1)

\* lines 113-159 with the ld+json names gathered before the other sources
GatherCandidatesLdFirst(soup) ==
    LET metaText(m) == IF m.content # <<>> THEN m.content ELSE m.value
        fromMeta == SelectSeq([i \in 1..Len(soup.meta) |-> metaText(soup.meta[i])],
                              LAMBDA t : t # <<>>)
        texts(els) == SelectSeq([i \in 1..Len(els) |-> Strip(els[i])],
                                LAMBDA t : t # <<>>)
        fromLd == Flatten([i \in 1..Len(soup.ld) |->
                              IF soup.ld[i].k = "malformed" THEN <<>>
                              ELSE PullNames(soup.ld[i])], 1)
    IN  fromLd \o fromMeta \o texts(soup.headings) \o texts(soup.crumbs)

\* lines 113-159: cands.  soup.meta lists the content and value of the
\* title meta tags found, soup.headings and soup.crumbs the text of the
\* elements the selectors of lines 130-143 found, soup.ld the ld+json scripts.
GatherCandidates(soup) ==
    LET metaText(m) == IF m.content # <<>> THEN m.content ELSE m.value
        fromMeta == SelectSeq([i \in 1..Len(soup.meta) |-> metaText(soup.meta[i])],
                              LAMBDA t : t # <<>>)
        texts(els) == SelectSeq([i \in 1..Len(els) |-> Strip(els[i])],
                                LAMBDA t : t # <<>>)
        fromLd == Flatten([i \in 1..Len(soup.ld) |->
                              IF soup.ld[i].k = "malformed" THEN <<>>
                              ELSE PullNames(soup.ld[i])], 1)
    IN  fromMeta \o texts(soup.headings) \o texts(soup.crumbs) \o fromLd

\* lines 161-168: cleaned
CleanCandidates(cands) ==
    LET norm == [i \in 1..Len(cands) |-> CleanTitlePiece(NormalizeSpaces(cands[i]))]
        kept == SelectSeq([i \in 1..Len(cands) |-> i],
                          LAMBDA i : /\ cands[i] # <<>>
                                     /\ norm[i] # <<>>
                                     /\ ~LooksGeneric(norm[i]))
    IN  [k \in 1..Len(kept) |-> norm[kept[k]]]

\* lines 170-181 returning the slug without the test of line 177
ChooseNameBareSlug(cleaned, slug) ==
    IF cleaned # <<>> THEN MaxByScore(cleaned) ELSE slug

\* lines 170-181 without the slug of lines 176-179
ChooseNameNoSlug(cleaned, slug) ==
    IF cleaned # <<>> THEN MaxByScore(cleaned) ELSE DefaultName

\* lines 170-181 with the slug tried before the candidates
ChooseNameSlugFirst(cleaned, slug) ==
    IF slug # <<>> /\ ~LooksGeneric(slug) THEN slug
    ELSE IF cleaned # <<>> THEN MaxByScore(cleaned)
    ELSE DefaultName

\* lines 170-181: the best cleaned candidate, else the slug of the URL if
\* it is not empty and not generic, else "Car"
ChooseName(cleaned, slug) ==
    IF cleaned # <<>> THEN MaxByScore(cleaned)
    ELSE IF slug # <<>> /\ ~LooksGeneric(slug) THEN slug
    ELSE DefaultName

\* lines 113-181: extract_vehicle_name
ExtractVehicleName(soup, url) ==
    ChooseName(CleanCandidates(GatherCandidates(soup)), SlugFromUrl(url))

\* crawl, lines 487-490: a name that is generic gives way to the slug of the
\* URL when that is not empty and not generic
FollowUpName(name, url) ==
    IF LooksGeneric(name)
    THEN LET slug == SlugFromUrl(url)
         IN  IF slug # <<>> /\ ~LooksGeneric(slug) THEN slug ELSE name
    ELSE name

\* ------------------------------------------------- pages and URLs
LdProduct ==
    JDict(<< <<"name", JStr(LdName1)>>,
             <<"brand", JDict(<< <<"name", JStr(LdName2)>> >>)>>,
             <<"offers", JList(<< JDict(<< <<"price", JNum>>,
                                           <<"name", JStr(LdName3)>> >>) >>)>> >>)
LdOddName == JList(<< JDict(<< <<"name", JNum>> >>), JStr(LdName2) >>)

Titles == {TitleList[i] : i \in 1..MaxTitles}
Urls == {UrlList[i] : i \in 1..MaxUrls}
MetaChoices ==
    {<<>>} \cup {<<[content |-> t, value |-> <<>>]>> : t \in Titles}
           \cup {<<[content |-> <<>>, value |-> t]>> : t \in Titles}
TextChoices == {<<>>} \cup {<<t>> : t \in Titles}
LdChoices == {<<>>, <<JMalformed>>, <<LdProduct>>, <<JMalformed, LdOddName>>}
Soups == [meta : MetaChoices, headings : TextChoices, crumbs : TextChoices,
          ld : LdChoices]

\* ------------------------------------------------------ image references
\* line 21: IMG_EXTS
ImgExts == {<<".", "j", "p", "g">>,
            <<".", "j", "p", "e", "g">>,
            <<".", "p", "n", "g">>,
            <<".", "w", "e", "b", "p">>,
            <<".", "g", "i", "f">>}

\* the characters of the URLs of the model in the order of their code points
AsciiOrder == <<"#", "-", ".", "/", "0", "1", "2", "3", "4", "5", "6", "7", "8", "9", ":", ";", "=", "?">> \o UpperLetters
              \o <<"_">> \o LowerLetters

\* argument listing_url: "https://s/listings/car-1"
ListingUrl == <<"h", "t", "t", "p", "s", ":", "/", "/", "s", "/", "l", "i", "s", "t", "i", "n", "g", "s", "/", "c", "a", "r", "-", "1">>

\* The references a page may hold.  head is the scheme and host ("" for a
\* reference without them), then path, params (after ";"), query (after
\* "?") and frag (after "#"), each "" when absent; rel says that the path is
\* relative to the directory of the page; img that the path ends,
\* case-insensitively, in one of the image extensions.
RefTable == <<
    \* "/i/a.jpg"
    [head |-> <<>>, path |-> <<"/", "i", "/", "a", ".", "j", "p", "g">>, params |-> <<>>,
     query |-> <<>>, frag |-> <<>>, rel |-> FALSE, img |-> TRUE],
    \* "/i/a.jpg?v=1"
    [head |-> <<>>, path |-> <<"/", "i", "/", "a", ".", "j", "p", "g">>, params |-> <<>>,
     query |-> <<"v", "=", "1">>, frag |-> <<>>, rel |-> FALSE, img |-> TRUE],
    \* "/i/a.jpg?v=2#t"
    [head |-> <<>>, path |-> <<"/", "i", "/", "a", ".", "j", "p", "g">>, params |-> <<>>,
     query |-> <<"v", "=", "2">>, frag |-> <<"t">>, rel |-> FALSE, img |-> TRUE],
    \* "https://s/i/a.jpg#t"
    [head |-> <<"h", "t", "t", "p", "s", ":", "/", "/", "s">>, path |-> <<"/", "i", "/", "a", ".", "j", "p", "g">>, params |-> <<>>,
     query |-> <<>>, frag |-> <<"t">>, rel |-> FALSE, img |-> TRUE],
    \* "/i/b.PNG"
    [head |-> <<>>, path |-> <<"/", "i", "/", "b", ".", "P", "N", "G">>, params |-> <<>>,
     query |-> <<>>, frag |-> <<>>, rel |-> FALSE, img |-> TRUE],
    \* "/i/a.jpg;w=1"
    [head |-> <<>>, path |-> <<"/", "i", "/", "a", ".", "j", "p", "g">>, params |-> <<"w", "=", "1">>,
     query |-> <<>>, frag |-> <<>>, rel |-> FALSE, img |-> TRUE],
    \* "/i/a;x.png"
    [head |-> <<>>, path |-> <<"/", "i", "/", "a">>, params |-> <<"x", ".", "p", "n", "g">>,
     query |-> <<>>, frag |-> <<>>, rel |-> FALSE, img |-> FALSE],
    \* "https://c.jpg"
    [head |-> <<"h", "t", "t", "p", "s", ":", "/", "/", "c", ".", "j", "p", "g">>, path |-> <<>>, params |-> <<>>,
     query |-> <<>>, frag |-> <<>>, rel |-> FALSE, img |-> FALSE],
    \* "/i/a"
    [head |-> <<>>, path |-> <<"/", "i", "/", "a">>, params |-> <<>>,
     query |-> <<>>, frag |-> <<>>, rel |-> FALSE, img |-> FALSE],
    \* "/i/a?f=x.jpg"
    [head |-> <<>>, path |-> <<"/", "i", "/", "a">>, params |-> <<>>,
     query |-> <<"f", "=", "x", ".", "j", "p", "g">>, frag |-> <<>>, rel |-> FALSE, img |-> FALSE],
    \* "b.gif"
    [head |-> <<>>, path |-> <<"b", ".", "g", "i", "f">>, params |-> <<>>,
     query |-> <<>>, frag |-> <<>>, rel |-> TRUE, img |-> TRUE],
    \* "https://s/c.webp?v=1"
    [head |-> <<"h", "t", "t", "p", "s", ":", "/", "/", "s">>, path |-> <<"/", "c", ".", "w", "e", "b", "p">>, params |-> <<>>,
     query |-> <<"v", "=", "1">>, frag |-> <<>>, rel |-> FALSE, img |-> TRUE],
    \* "/i/d.jpeg#x"
    [head |-> <<>>, path |-> <<"/", "i", "/", "d", ".", "j", "p", "e", "g">>, params |-> <<>>,
     query |-> <<>>, frag |-> <<"x">>, rel |-> FALSE, img |-> TRUE]>>

\* the text of a reference
BuildRef(r) ==
    r.head \o r.path
    \o (IF r.params # <<>> THEN <<";">> \o r.params ELSE <<>>)
    \o (IF r.query # <<>> THEN <<"?">> \o r.query ELSE <<>>)
    \o (IF r.frag # <<>> THEN <<"#">> \o r.frag ELSE <<>>)

\* str.endswith
EndsWith(u, ext) ==
    Len(u) >= Len(ext) /\ SubSeq(u, Len(u) - Len(ext) + 1, Len(u)) = ext

\* lines 75, 78, 83: any(u.lower().endswith(ext) for ext in IMG_EXTS)
HasImgExt(u) == \E ext \in ImgExts : EndsWith(StrLower(u), ext)

\* urlunparse of the six components (the URLs of the model have a host)
UrlUnparse(p) ==
    (IF p.scheme # <<>> THEN p.scheme \o <<":">> ELSE <<>>)
    \o (IF p.netloc # <<>> THEN <<"/", "/">> \o p.netloc ELSE <<>>)
    \o p.path
    \o (IF p.params # <<>> THEN <<";">> \o p.params ELSE <<>>)
    \o (IF p.query # <<>> THEN <<"?">> \o p.query ELSE <<>>)
    \o (IF p.fragment # <<>> THEN <<"#">> \o p.fragment ELSE <<>>)

\* lines 37-38 with the query left in place
NormalizeImgKeepQuery(u) == UrlUnparse([UrlParse(u) EXCEPT !.fragment = <<>>])

\* lines 37-38: normalize_img
NormalizeImg(u) ==
    UrlUnparse([UrlParse(u) EXCEPT !.query = <<>>, !.fragment = <<>>])

\* the directory of a path: the path up to its last "/"
BaseDir(path) ==
    LET sl == {i \in 1..Len(path) : path[i] = "/"}
    IN  IF sl = {} THEN <<>>
        ELSE SubSeq(path, 1, CHOOSE i \in sl : \A j \in sl : j <= i)

\* urljoin on the parsed base bp and the parsed reference rp (the
\* references of the model have no "." or ".." segment)
UrlJoinParsed(bp, rp, ref) ==
    IF rp.scheme # <<>> /\ rp.scheme # bp.scheme THEN ref
    ELSE IF rp.netloc # <<>> THEN UrlUnparse([rp EXCEPT !.scheme = bp.scheme])
    ELSE IF rp.path = <<>> /\ rp.params = <<>>
    THEN UrlUnparse([bp EXCEPT !.query = IF rp.query # <<>> THEN rp.query
                                         ELSE bp.query,
                               !.fragment = rp.fragment])
    ELSE IF rp.path # <<>> /\ rp.path[1] = "/"
    THEN UrlUnparse([rp EXCEPT !.scheme = bp.scheme, !.netloc = bp.netloc])
    ELSE UrlUnparse([rp EXCEPT !.scheme = bp.scheme, !.netloc = bp.netloc,
                               !.path = BaseDir(bp.path) \o rp.path])

\* urljoin(listing_url, u)
UrlJoin(base, ref) ==
    IF ref = <<>> THEN base ELSE UrlJoinParsed(UrlParse(base), UrlParse(ref), ref)

\* lines 69-83: the set urls; refs are the values of the image attributes,
\* the hrefs and the url(...) of the style attributes, in scan order
CollectUrls(base, refs) ==
    {u \in {NormalizeImg(UrlJoin(base, refs[i])) :
                i \in {j \in 1..Len(refs) : refs[j] # <<>>}} : HasImgExt(u)}

\* the place of a character in the order of the code points
CharRank(c) == CHOOSE i \in DOMAIN AsciiOrder : AsciiOrder[i] = c

\* a < b on Python strings
StrLess(a, b) ==
    \E k \in 1..(Len(b)) :
        /\ \A j \in 1..(k - 1) : j <= Len(a) /\ a[j] = b[j]
        /\ Len(a) >= k - 1
        /\ \/ Len(a) = k - 1
           \/ CharRank(a[k]) < CharRank(b[k])

\* list.insert at the place that keeps s ascending
RECURSIVE InsertSortedStr(_, _)
InsertSortedStr(x, s) ==
    IF s = <<>> THEN <<x>>
    ELSE IF x = Head(s) \/ StrLess(x, Head(s)) THEN <<x>> \o s
    ELSE <<Head(s)>> \o InsertSortedStr(x, Tail(s))

\* list(urls): the members in the order the set iterates them
UnsortedUrls(order) == order

\* line 84: sorted(urls), given the order in which the set iterates
RECURSIVE SortedUrls(_)
SortedUrls(order) ==
    IF order = <<>> THEN <<>>
    ELSE InsertSortedStr(Head(order), SortedUrls(Tail(order)))

\* the orders in which a set may iterate its members
Orders(S) ==
    {f \in [1..Cardinality(S) -> S] : \A i, j \in 1..Cardinality(S) : f[i] = f[j] => i = j}

\* the pages: up to MaxRefs references of RefTable, by index
RefLists == UNION {[1..n -> 1..Len(RefTable)] : n \in 0..MaxRefs}

RefTexts(rs) == [i \in 1..Len(rs) |-> BuildRef(RefTable[rs[i]])]

\* ------------------------------------------------- the elements of a page
\* lines 70-72: the image elements of the model; each gives the values of
\* src, data-src, data-lazy-src and data-original in this order, a reference
\* of RefTable by index, 0 where the element lacks the attribute or holds ""
ImgTable == <<
    <<1, 0, 0, 0>>,
    <<9, 5, 0, 0>>,
    <<0, 0, 11, 13>>,
    <<0, 0, 0, 0>>>>

\* line 76: the href values of the hyperlinks of the model, a reference of
\* RefTable by index, 0 for href=""
LinkTable == <<4, 9, 0>>

\* line 79: the style attributes of the model; urls are the references the
\* text holds inside url(...), in the order of the text
StyleTable == <<
    \* background:url(/i/a.jpg)
    [text |-> <<"b", "a", "c", "k", "g", "r", "o", "u", "n", "d", ":", "u", "r", "l", "(", "/", "i", "/", "a", ".", "j", "p", "g", ")">>,
     urls |-> <<1>>],
    \* background:url('/i/b.PNG')
    [text |-> <<"b", "a", "c", "k", "g", "r", "o", "u", "n", "d", ":", "u", "r", "l", "(", "'", "/", "i", "/", "b", ".", "P", "N", "G", "'", ")">>,
     urls |-> <<5>>],
    \* background:url(/i/a.jpg),url(/i/d.jpeg#x)
    [text |-> <<"b", "a", "c", "k", "g", "r", "o", "u", "n", "d", ":", "u", "r", "l", "(", "/", "i", "/", "a", ".", "j", "p", "g", ")", ",", "u", "r", "l", "(", "/", "i", "/", "d", ".", "j", "p", "e", "g", "#", "x", ")">>,
     urls |-> <<1, 13>>],
    \* color:red
    [text |-> <<"c", "o", "l", "o", "r", ":", "r", "e", "d">>,
     urls |-> <<>>],
    \* background:URL((double quote)b.gif(double quote))
    [text |-> <<"b", "a", "c", "k", "g", "r", "o", "u", "n", "d", ":", "U", "R", "L", "(", "\"", "b", ".", "g", "i", "f", "\"", ")">>,
     urls |-> <<11>>],
    \* background:url(/i/a),url(/i/b.PNG)
    [text |-> <<"b", "a", "c", "k", "g", "r", "o", "u", "n", "d", ":", "u", "r", "l", "(", "/", "i", "/", "a", ")", ",", "u", "r", "l", "(", "/", "i", "/", "b", ".", "P", "N", "G", ")">>,
     urls |-> <<9, 5>>]>>

\* the text of the reference with index r, "" for 0
RefText(r) == IF r = 0 THEN <<>> ELSE BuildRef(RefTable[r])

\* the quote characters of the pattern
IsQuote(c) == c \in {"'", "\""}

\* the first k >= from where the text q followed by ")" starts, 0 if none:
\* the lazy (.*?) followed by \1\)
RECURSIVE CloseAt(_, _, _)
CloseAt(t, q, from) ==
    IF from + Len(q) > Len(t) THEN 0
    ELSE IF SubSeq(t, from, from + Len(q)) = q \o <<")">> THEN from
    ELSE CloseAt(t, q, from + 1)

NoMatch == [found |-> FALSE, ref |-> <<>>]

\* the match that starts after "url(", at p: with the quote of t[p] as \1
\* if that closes, else with \1 empty
MatchAfterOpen(t, p, quoted, plain) ==
    IF quoted > 0 THEN [found |-> TRUE, ref |-> SubSeq(t, p + 1, quoted - 1)]
    ELSE IF plain > 0 THEN [found |-> TRUE, ref |-> SubSeq(t, p, plain - 1)]
    ELSE NoMatch

\* line 80: the pattern url\((['"]?)(.*?)\1\) with re.I, matched at i
MatchUrlAt(t, i) ==
    IF i + 3 > Len(t) \/ StrLower(SubSeq(t, i, i + 3)) # <<"u", "r", "l", "(">>
    THEN NoMatch
    ELSE MatchAfterOpen(t, i + 4,
                        IF i + 4 <= Len(t) /\ IsQuote(t[i + 4])
                        THEN CloseAt(t, <<t[i + 4]>>, i + 5) ELSE 0,
                        CloseAt(t, <<>>, i + 4))

\* line 80: re.search, the leftmost match from i on; m.group(2) is ref
RECURSIVE SearchUrl(_, _)
SearchUrl(t, i) ==
    IF i > Len(t) THEN NoMatch
    ELSE IF MatchUrlAt(t, i).found THEN MatchUrlAt(t, i)
    ELSE SearchUrl(t, i + 1)

\* lines 74-75, 77-78, 82-83: the set with u joined and normalized if it
\* passes the extension test, else the empty set
KeptUrl(base, u) ==
    IF HasImgExt(NormalizeImg(UrlJoin(base, u)))
    THEN {NormalizeImg(UrlJoin(base, u))} ELSE {}

\* lines 70-75: the image elements; an attribute without a value is skipped
ImgUrls(base, imgs) ==
    UNION {KeptUrl(base, RefText(imgs[i][a])) :
               <<i, a>> \in {<<j, b>> \in (1..Len(imgs)) \X (1..4) : imgs[j][b] # 0}}

\* lines 76-78: the hyperlinks that have an href
LinkUrls(base, links) ==
    UNION {KeptUrl(base, RefText(links[i])) : i \in 1..Len(links)}

\* lines 79-83: the first url(...) of every style attribute
StyleUrls(base, styles) ==
    UNION {KeptUrl(base, SearchUrl(styles[i], 1).ref) :
               i \in {j \in 1..Len(styles) : SearchUrl(styles[j], 1).found}}

\* lines 69-83: the set urls of a page of elements
ElementUrls(base, pg) ==
    ImgUrls(base, pg.imgs) \cup LinkUrls(base, pg.links)
    \cup StyleUrls(base, [i \in 1..Len(pg.styles) |-> StyleTable[pg.styles[i]].text])

\* the sequences of up to MaxTags indices of a table
TagLists(table) == UNION {[1..n -> 1..Len(table)] : n \in 0..MaxTags}

\* the pages of elements
ElementPages ==
    {[imgs |-> [i \in 1..Len(im) |-> ImgTable[im[i]]],
      links |-> [i \in 1..Len(ln) |-> LinkTable[ln[i]]],
      styles |-> st] :
         im \in TagLists(ImgTable), ln \in TagLists(LinkTable), st \in TagLists(StyleTable)}

\* ------------------------------------------------- the show-more trigger
\* lines 201-207: SHOW_MORE_CANDIDATES, the tag each XPath selects and what
\* it asks of the element: its lower-cased text holds the words, or its rel
\* attribute is the value
ShowMoreCandidates == <<
    [tag |-> "button", text |-> "show more", rel |-> ""],
    [tag |-> "a", text |-> "show more", rel |-> ""],
    [tag |-> "button", text |-> "load more", rel |-> ""],
    [tag |-> "a", text |-> "load more", rel |-> ""],
    [tag |-> "a", text |-> "", rel |-> "next"]>>

\* lines 208-212: SHOW_MORE_CLASSES
ShowMoreClasses == <<
    ".stm-load-more", ".load-more", ".btn-load-more", ".stm_ajax_load_more",
    ".stm-ajax-load-more", ".stm_load_more", ".stm-inventory-load-more",
    ".stm-ajax-load-more-btn">>

\* The elements a page may hold.  text is "show more" or "load more" when
\* the lower-cased text of the element holds these words, cls the classes of
\* SHOW_MORE_CLASSES the element carries, disabled its disabled attribute,
\* displayed and enabled what is_displayed() and is_enabled() answer, y
\* its location.  A button inside a disabled fieldset has no disabled
\* attribute of its own and is not enabled.
ElemTable == <<
    [tag |-> "button", text |-> "show more", rel |-> "", cls |-> {}, role |-> "",
     disabled |-> FALSE, displayed |-> TRUE, enabled |-> TRUE, y |-> 1],
    [tag |-> "button", text |-> "show more", rel |-> "", cls |-> {}, role |-> "",
     disabled |-> FALSE, displayed |-> FALSE, enabled |-> TRUE, y |-> 0],
    [tag |-> "a", text |-> "load more", rel |-> "", cls |-> {}, role |-> "",
     disabled |-> FALSE, displayed |-> TRUE, enabled |-> TRUE, y |-> 2],
    [tag |-> "a", text |-> "other", rel |-> "next", cls |-> {}, role |-> "",
     disabled |-> FALSE, displayed |-> TRUE, enabled |-> TRUE, y |-> 0],
    [tag |-> "button", text |-> "other", rel |-> "", cls |-> {".load-more"}, role |-> "",
     disabled |-> FALSE, displayed |-> TRUE, enabled |-> FALSE, y |-> 1],
    [tag |-> "button", text |-> "other", rel |-> "", cls |-> {}, role |-> "",
     disabled |-> TRUE, displayed |-> TRUE, enabled |-> FALSE, y |-> 3],
    [tag |-> "a", text |-> "other", rel |-> "", cls |-> {}, role |-> "button",
     disabled |-> FALSE, displayed |-> TRUE, enabled |-> TRUE, y |-> 3],
    [tag |-> "button", text |-> "other", rel |-> "", cls |-> {".stm-load-more"}, role |-> "",
     disabled |-> TRUE, displayed |-> TRUE, enabled |-> FALSE, y |-> 0],
    [tag |-> "button", text |-> "show more", rel |-> "", cls |-> {}, role |-> "",
     disabled |-> TRUE, displayed |-> TRUE, enabled |-> FALSE, y |-> 2]>>

\* the number of lookups find_show_more makes: one per XPath, one per
\* class, and the last one
LookupCount == Len(ShowMoreCandidates) + Len(ShowMoreClasses) + 1

\* find_elements gives the elements in document order: the positions S
\* ascending
RECURSIVE DocumentOrder(_)
DocumentOrder(S) ==
    IF S = {} THEN <<>>
    ELSE <<CHOOSE i \in S : \A j \in S : i <= j>>
         \o DocumentOrder(S \ {CHOOSE i \in S : \A j \in S : i <= j})

\* line 280: find_elements(By.XPATH, xp)
MatchesXPath(e, xp) ==
    /\ e.tag = xp.tag
    /\ xp.text # "" => e.text = xp.text
    /\ xp.rel # "" => e.rel = xp.rel

\* lines 280-281: the elements of the XPath that are displayed and enabled
XPathHits(pg, k) ==
    DocumentOrder({i \in 1..Len(pg) : /\ MatchesXPath(pg[i], ShowMoreCandidates[k])
                                       /\ pg[i].displayed /\ pg[i].enabled})

\* lines 288-289: the elements of "<css>:not([disabled])" that are displayed
ClassHits(pg, k) ==
    DocumentOrder({i \in 1..Len(pg) : /\ ShowMoreClasses[k] \in pg[i].cls
                                       /\ ~pg[i].disabled
                                       /\ pg[i].displayed})

\* lines 295-296: the displayed elements of "button, a[role='button']"
ButtonHits(pg) ==
    DocumentOrder({i \in 1..Len(pg) : /\ \/ pg[i].tag = "button"
                                          \/ (pg[i].tag = "a" /\ pg[i].role = "button")
                                       /\ pg[i].displayed})

\* list.insert behind the entries with a key not above that of i
RECURSIVE InsertByY(_, _, _)
InsertByY(pg, i, s) ==
    IF s = <<>> THEN <<i>>
    ELSE IF pg[i].y < pg[Head(s)].y THEN <<i>> \o s
    ELSE <<Head(s)>> \o InsertByY(pg, i, Tail(s))

\* line 297: cand.sort(key=y), a stable sort
RECURSIVE SortByY(_, _)
SortByY(pg, cand) ==
    IF cand = <<>> THEN <<>>
    ELSE InsertByY(pg, cand[Len(cand)], SortByY(pg, SubSeq(cand, 1, Len(cand) - 1)))

\* lines 294-301: the last lookup; raises says that the lookup raises
FindLowest(pg, raises) ==
    IF raises \/ ButtonHits(pg) = <<>> THEN 0
    ELSE SortByY(pg, ButtonHits(pg))[Len(ButtonHits(pg))]

\* lines 286-293: the classes from the k-th on, then the last lookup
RECURSIVE FindByClass(_, _, _)
FindByClass(pg, raise, k) ==
    IF k > Len(ShowMoreClasses) THEN FindLowest(pg, raise = LookupCount)
    ELSE IF raise # Len(ShowMoreCandidates) + k /\ ClassHits(pg, k) # <<>>
    THEN Head(ClassHits(pg, k))
    ELSE FindByClass(pg, raise, k + 1)

\* lines 278-285: the XPaths from the k-th on, then the classes
RECURSIVE FindByXPath(_, _, _)
FindByXPath(pg, raise, k) ==
    IF k > Len(ShowMoreCandidates) THEN FindByClass(pg, raise, 1)
    ELSE IF raise # k /\ XPathHits(pg, k) # <<>> THEN Head(XPathHits(pg, k))
    ELSE FindByXPath(pg, raise, k + 1)

\* lines 277-302: find_show_more; the result is the position of the
\* returned element in the page, 0 for None; raise is the lookup in which
\* the driver raises, 0 if in none
FindShowMore(pg, raise) == FindByXPath(pg, raise, 1)

\* the pages: up to MaxElems elements of ElemTable
ElemPages ==
    UNION {{[i \in 1..n |-> ElemTable[f[i]]] : f \in [1..n -> 1..Len(ElemTable)]} :
               n \in 0..MaxElems}

\* ------------------------------------------------- dealer hrefs
\* An href selected by a[href*='/author/'], a[href*='/dealers/'] is
\* <<name, tail>>: the site's author/dealers prefix, then the name segment
\* (its rank among the names), then the tail "", "/" or "?p" (a query).
Tails == {"", "/", "?p"}
DealerHrefs == (1..MaxDealerNames) \X Tails
AnchorLists == UNION {[1..n -> DealerHrefs] : n \in 0..MaxAnchors}

\* Python's string order on two hrefs: "" < "/" < "?p" ('/' is 47, '?' is 63)
TailRank(t) == CASE t = "" -> 0 [] t = "/" -> 1 [] t = "?p" -> 2
HrefLess(a, b) == a[1] < b[1] \/ (a[1] = b[1] /\ TailRank(a[2]) < TailRank(b[2]))

\* line 380: re.search(r"/author/[^/?#]+/?$", h) or
\* re.search(r"/dealers?/[^\s/?#]+/?$", h): the name segment, an optional
\* slash, and the end of the string
MatchesDealerPattern(h) == h[2] \in {"", "/"}

\* lines 377-382 without the seen set
RECURSIVE CollectNoSeen(_, _, _)
CollectNoSeen(a, i, acc) ==
    IF i > Len(a) THEN acc
    ELSE IF MatchesDealerPattern(a[i])
         THEN CollectNoSeen(a, i + 1, Append(acc, a[i]))
         ELSE CollectNoSeen(a, i + 1, acc)

CollectDealersNoSeen(a) == CollectNoSeen(a, 1, <<>>)

\* lines 377-382: the loop over the anchors; seen is the set of acc's members
RECURSIVE CollectFrom(_, _, _)
CollectFrom(a, i, acc) ==
    IF i > Len(a) THEN acc
    ELSE IF MatchesDealerPattern(a[i]) /\ a[i] \notin Range(acc)
         THEN CollectFrom(a, i + 1, Append(acc, a[i]))
         ELSE CollectFrom(a, i + 1, acc)

\* lines 377-384: hrefs as collect_all_dealers returns it
CollectDealers(a) == CollectFrom(a, 1, <<>>)

\* what a scroll and a click on "show more" may do to the anchors
PageResponses(a) ==
    {a}
    \cup {Append(a, h) : h \in IF Len(a) < MaxAnchors THEN DealerHrefs ELSE {}}
    \cup (IF a = <<>> THEN {} ELSE {SubSeq(a, 1, Len(a) - 1)})

\* ------------------------------------------------- the simulated page
\* find_show_more at the head of a round (rounds already incremented to r)
TriggerAtHead(r) ==
    CASE scenario = "any"   -> BOOLEAN
      [] scenario = "stuck" -> {TRUE}
      [] scenario = "two"   -> {r <= 2}

\* find_show_more when a click is retried
TriggerAtRetry ==
    IF scenario = "any" THEN BOOLEAN ELSE {TRUE}

\* what the four click strategies may do
ClicksPossible ==
    IF scenario = "two" THEN {o \in ClickOutcomes : ClickHard(o)} ELSE ClickOutcomes

\* the links a click of round r makes the page load
Requested(r) ==
    IF scenario = "two"
    THEN LET free == Links \ (page \cup incoming)
         IN  {S \in SUBSET free : S # {} /\ Cardinality(free \ S) >= 2 - r}
    ELSE {{}}

\* one jiggle taking d seconds, and the scan after it (the no-trigger exit
\* does not scan): <<page, incoming, scanned links>>.  On page "two" the
\* requested links arrive within the slow_wait window that follows the
\* click, at least one of them by the first poll pass.
Arrivals(d, polling) ==
    IF polling
    THEN {B \in SUBSET incoming : incoming # {} => B # {}}
    ELSE IF now + d <= end THEN SUBSET incoming ELSE {{}}

AfterJiggle(d, polling) ==
    CASE scenario = "any"   -> {<<page, incoming, S>> : S \in SUBSET Links}
      [] scenario = "stuck" ->
            {<<page, incoming, S>> :
                S \in {T \in SUBSET Links : Cardinality(T) <= Cardinality(initial)}}
      [] scenario = "two"   ->
            {<<page \cup A, incoming \ A, page \cup A>> : A \in Arrivals(d, polling)}

\* the first scan, before the loop
FirstScan ==
    IF scenario = "two" THEN {page} ELSE SUBSET Links

\* an interaction outside every try block raises only on the arbitrary page
MayRaise == scenario = "any"

\* ---------------------------------------------------------------- Init
\* collect_all_dealers has not been called
DealersIdle ==
    /\ dpc = "idle"
    /\ anchors = <<>>
    /\ last = -1
    /\ stagn = 0
    /\ hrefs = <<>>

\* extract_vehicle_name has not been called
NameIdle ==
    /\ npc = "idle"
    /\ vsoup = [meta |-> <<>>, headings |-> <<>>, crumbs |-> <<>>, ld |-> <<>>]
    /\ vurl = <<>>
    /\ vname = <<>>
    /\ raw_name = <<>>

\* a title without words
EmptyTitle == [w |-> <<>>, g |-> <<>>]

\* no earlier call of _score_title
NoCall == [called |-> FALSE, title |-> EmptyTitle, res |-> 0]

\* no title function has been called
TitleIdle ==
    /\ tpc = "idle"
    /\ tfun = "none"
    /\ ttitle = EmptyTitle
    /\ targ = <<>>
    /\ tres = 0
    /\ tprev = NoCall

\* slug_from_url has not been called
SlugIdle ==
    /\ spc = "idle"
    /\ swords = <<>>
    /\ surl = <<>>
    /\ sres = <<>>

\* extract_images has not been called
ImagesIdle ==
    /\ ipc = "idle"
    /\ ibase = <<>>
    /\ irefs = <<>>
    /\ iout1 = <<>>
    /\ iout2 = <<>>

\* extract_images has not been called on a page of elements
ElementsIdle ==
    /\ epc = "idle"
    /\ epage = [imgs |-> <<>>, links |-> <<>>, styles |-> <<>>]
    /\ eout = <<>>

\* find_show_more has not been called
ShowMoreIdle ==
    /\ fpc = "idle"
    /\ fpage = <<>>
    /\ fraise = 0
    /\ fres = 0

\* click_hard has not been called
ClickIdle ==
    /\ cpc = "idle"
    /\ cdriver = [native |-> 0, script |-> FALSE, events |-> FALSE, chain |-> FALSE]
    /\ cok = FALSE
    /\ ctried = <<>>
    /\ cret = FALSE

\* a file that is not there
Absent == -1

\* line 506: dest.exists() and dest.stat().st_size > 0
Downloaded(size) == size # Absent /\ size > 0

\* crawl has not reached its download loop
DownloadIdle ==
    /\ wpc = "idle"
    /\ run = "first"
    /\ imgk = 0
    /\ body = <<>>
    /\ dest = <<>>
    /\ tmp = <<>>
    /\ before = <<>>
    /\ outcome = <<>>

\* none of the later calls has been made
ExtrasIdle == ElementsIdle /\ ShowMoreIdle /\ ClickIdle /\ DownloadIdle

Init ==
    /\ ExtrasIdle
    /\ DealersIdle
    /\ NameIdle
    /\ TitleIdle
    /\ SlugIdle
    /\ ImagesIdle
    /\ scenario \in Scenarios
    /\ page \in IF scenario = "two"
                THEN {S \in SUBSET Links : Cardinality(Links \ S) >= 2}
                ELSE {{}}
    /\ incoming = {}
    /\ slow_wait \in SlowWaits
    /\ max_rounds \in 1..MaxRoundLimit
    /\ pc = "start"
    /\ unique = {}
    /\ initial = {}
    /\ no_growth_rounds = 0
    /\ rounds = 0
    /\ now = 0
    /\ hard_deadline = 0
    /\ end = 0
    /\ jig = 0
    /\ exitPath = "none"
    /\ result = <<>>
    /\ watch = FALSE
    /\ now_unique = {}
    /\ clicks = <<>>
    /\ head = 0
    /\ dry = 0

\* ------------------------------------------------------------- actions
\* return sorted(unique)
Return(path) ==
    /\ pc' = "returned"
    /\ exitPath' = path
    /\ result' = SortedList(unique)

\* an exception leaves collect_inventory_clickhard
Raise ==
    /\ pc' = "raised"
    /\ UNCHANGED <<xvars, dvars, nvars, tvars, svars, ivars>>
    /\ UNCHANGED <<watch, scenario, page, incoming, slow_wait, max_rounds, unique, initial,
                   no_growth_rounds, rounds, now, hard_deadline, end, jig, exitPath,
                   result, now_unique, clicks, head, dry>>

\* the new value of a recording variable that holds old: x in a watched
\* call, else unchanged
Recorded(x, old) == IF watch THEN x ELSE old

\* a round is over with unique = u: it is one more round without growth
\* unless u is larger than unique was when the round began
RoundEnds(u) ==
    dry' = Recorded(IF Cardinality(u) > head THEN 0 ELSE dry + 1, dry)

\* lines 388-398: navigate, open the inventory tab, dismiss overlays, first scan
Enter ==
    /\ pc = "start"
    /\ UNCHANGED <<xvars, dvars, nvars, tvars, svars, ivars>>
    /\ \E seen \in FirstScan :
          /\ unique' = seen
          /\ initial' = seen
    /\ no_growth_rounds' = 0
    /\ rounds' = 0
    /\ hard_deadline' = now + HardStop(slow_wait)
    /\ pc' = "loop"
    /\ UNCHANGED <<watch, scenario, page, incoming, slow_wait, max_rounds, now, end, jig,
                   exitPath, result, now_unique, clicks, head, dry>>

\* driver.get, execute_script(DISMISS_JS) or visible_listing_links raises
EnterRaises ==
    /\ pc = "start"
    /\ MayRaise
    /\ Raise

\* lines 400-403: the loop condition, rounds += 1, find_show_more
LoopHead ==
    /\ pc = "loop"
    /\ UNCHANGED <<xvars, dvars, nvars, tvars, svars, ivars>>
    /\ LoopGuard(rounds, max_rounds, now, hard_deadline)
    /\ rounds' = rounds + 1
    /\ clicks' = <<>>
    /\ head' = Recorded(Cardinality(unique), head)
    /\ \E found \in TriggerAtHead(rounds + 1) :
          /\ pc' = IF found THEN "click" ELSE "drain"
          /\ jig' = 0
    /\ UNCHANGED <<watch, scenario, page, incoming, slow_wait, max_rounds, unique, initial,
                   no_growth_rounds, now, hard_deadline, end, exitPath, result,
                   now_unique, dry>>

\* lines 400, 445: the loop condition fails
LoopExit ==
    /\ pc = "loop"
    /\ UNCHANGED <<xvars, dvars, nvars, tvars, svars, ivars>>
    /\ ~LoopGuard(rounds, max_rounds, now, hard_deadline)
    /\ Return(IF rounds < max_rounds THEN "deadline" ELSE "limit")
    /\ UNCHANGED <<watch, scenario, page, incoming, slow_wait, max_rounds, unique, initial,
                   no_growth_rounds, rounds, now, hard_deadline, end, jig,
                   now_unique, clicks, head, dry>>

\* lines 404-406 with a scan after every jiggle pass
DrainWithScan ==
    /\ pc = "drain"
    /\ UNCHANGED <<xvars, dvars, nvars, tvars, svars, ivars>>
    /\ jig < DrainPasses
    /\ \E d \in Durations :
          /\ now' = now + d
          /\ \E dom \in AfterJiggle(d, FALSE) :
                /\ page' = dom[1]
                /\ incoming' = dom[2]
                /\ unique' = IF Grows(dom[3], unique) THEN dom[3] ELSE unique
    /\ jig' = jig + 1
    /\ IF jig + 1 = DrainPasses
       THEN /\ pc' = "returned"
            /\ exitPath' = "notrigger"
            /\ result' = SortedList(unique')
       ELSE UNCHANGED <<pc, exitPath, result>>
    /\ UNCHANGED <<watch, scenario, slow_wait, max_rounds, initial, no_growth_rounds,
                   rounds, hard_deadline, end, now_unique, clicks, head, dry>>

\* lines 404-406: one of the three jiggle passes; the last one returns
Drain ==
    /\ pc = "drain"
    /\ UNCHANGED <<xvars, dvars, nvars, tvars, svars, ivars>>
    /\ jig < DrainPasses
    /\ \E d \in Durations :
          /\ now' = now + d
          /\ \E dom \in AfterJiggle(d, FALSE) :
                /\ page' = dom[1]
                /\ incoming' = dom[2]
    /\ jig' = jig + 1
    /\ IF jig + 1 = DrainPasses
       THEN Return("notrigger")
       ELSE UNCHANGED <<pc, exitPath, result>>
    /\ UNCHANGED <<watch, scenario, slow_wait, max_rounds, unique, initial, no_growth_rounds,
                   rounds, hard_deadline, end, now_unique, clicks, head, dry>>

\* lines 405, 335-337: a script of jiggle raises
DrainRaises ==
    /\ pc = "drain"
    /\ MayRaise
    /\ Raise

\* lines 408-409, 415: click_hard on the located trigger
ClickFirst ==
    /\ pc = "click"
    /\ UNCHANGED <<xvars, dvars, nvars, tvars, svars, ivars>>
    /\ \E o \in ClicksPossible, req \in Requested(rounds) :
          /\ incoming' = incoming \cup req
          /\ clicks' = Recorded(Append(clicks, IF ClickHard(o) THEN "first"
                                                  ELSE "failed"), clicks)
          /\ IF ClickHard(o)
             THEN pc' = "poll" /\ end' = now + slow_wait
             ELSE pc' = "reclick" /\ end' = end
    /\ UNCHANGED <<watch, scenario, page, slow_wait, max_rounds, unique, initial,
                   no_growth_rounds, rounds, now, hard_deadline, jig, exitPath,
                   result, now_unique, head, dry>>

\* lines 410-415: re-locate the trigger and click once more
Reclick ==
    /\ pc = "reclick"
    /\ UNCHANGED <<xvars, dvars, nvars, tvars, svars, ivars>>
    /\ \E found \in TriggerAtRetry, o \in ClicksPossible :
          /\ clicks' = Recorded(IF found THEN Append(clicks, "retry") ELSE clicks,
                                clicks)
          /\ pc' = "poll"
          /\ end' = now + slow_wait
    /\ UNCHANGED <<watch, scenario, page, incoming, slow_wait, max_rounds, unique, initial,
                   no_growth_rounds, rounds, now, hard_deadline, jig, exitPath,
                   result, now_unique, head, dry>>

\* lines 417-426: one pass of the growth poll
PollPass ==
    /\ pc = "poll"
    /\ UNCHANGED <<xvars, dvars, nvars, tvars, svars, ivars>>
    /\ now < end
    /\ \E d \in Durations : \E dom \in AfterJiggle(d, TRUE) :
          /\ now' = now + d
          /\ page' = dom[1]
          /\ incoming' = dom[2]
          /\ now_unique' = Recorded(dom[3], now_unique)
          /\ IF Grows(dom[3], unique)
             THEN /\ unique' = dom[3]
                  /\ no_growth_rounds' = 0
                  /\ pc' = "loop"
                  /\ RoundEnds(dom[3])
             ELSE UNCHANGED <<unique, no_growth_rounds, pc, dry>>
    /\ UNCHANGED <<watch, scenario, slow_wait, max_rounds, initial, rounds, hard_deadline,
                   end, jig, exitPath, result, clicks, head>>

\* lines 418-419, 436-437: jiggle or visible_listing_links raises in a poll
PollRaises ==
    /\ pc \in {"poll", "poll2"}
    /\ now < end
    /\ MayRaise
    /\ Raise

\* lines 417, 427-434, 442-443: the poll ran out without growth
PollTimeout ==
    /\ pc = "poll"
    /\ UNCHANGED <<xvars, dvars, nvars, tvars, svars, ivars>>
    /\ ~(now < end)
    /\ no_growth_rounds' = no_growth_rounds + 1
    /\ IF FirstStagnation(no_growth_rounds + 1)
       THEN \E found \in TriggerAtRetry :
               IF found
               THEN /\ \E o \in ClicksPossible :
                         clicks' = Recorded(Append(clicks, "extra"), clicks)
                    /\ end' = now + SecondaryWait(slow_wait)
                    /\ pc' = "poll2"
                    /\ UNCHANGED <<exitPath, result, dry>>
               ELSE /\ pc' = "loop"
                    /\ RoundEnds(unique)
                    /\ UNCHANGED <<end, exitPath, result, clicks>>
       ELSE IF Stagnated(no_growth_rounds + 1)
            THEN /\ Return("stagnation")
                 /\ RoundEnds(unique)
                 /\ UNCHANGED <<end, clicks>>
            ELSE /\ pc' = "loop"
                 /\ RoundEnds(unique)
                 /\ UNCHANGED <<end, exitPath, result, clicks>>
    /\ UNCHANGED <<watch, scenario, page, incoming, slow_wait, max_rounds, unique, initial,
                   rounds, now, hard_deadline, jig, head>>
    /\ now_unique' = {}

\* lines 435-443: one pass of the shorter secondary poll
Poll2Pass ==
    /\ pc = "poll2"
    /\ UNCHANGED <<xvars, dvars, nvars, tvars, svars, ivars>>
    /\ now < end
    /\ \E d \in Durations : \E dom \in AfterJiggle(d, TRUE) :
          /\ now' = now + d
          /\ page' = dom[1]
          /\ incoming' = dom[2]
          /\ now_unique' = Recorded(dom[3], now_unique)
          /\ IF Grows(dom[3], unique)
             THEN /\ unique' = dom[3]
                  /\ no_growth_rounds' = 0
                  /\ pc' = "loop"
                  /\ RoundEnds(dom[3])
             ELSE UNCHANGED <<unique, no_growth_rounds, pc, dry>>
    /\ UNCHANGED <<watch, scenario, slow_wait, max_rounds, initial, rounds, hard_deadline,
                   end, jig, exitPath, result, clicks, head>>

\* lines 435, 442-443: the secondary poll ran out
Poll2Timeout ==
    /\ pc = "poll2"
    /\ UNCHANGED <<xvars, dvars, nvars, tvars, svars, ivars>>
    /\ ~(now < end)
    /\ IF Stagnated(no_growth_rounds)
       THEN Return("stagnation")
       ELSE pc' = "loop" /\ UNCHANGED <<exitPath, result>>
    /\ RoundEnds(unique)
    /\ UNCHANGED <<watch, scenario, page, incoming, slow_wait, max_rounds, unique, initial,
                   no_growth_rounds, rounds, now, hard_deadline, end, jig,
                   clicks, head>>
    /\ now_unique' = {}

Next ==
    \/ Enter
    \/ EnterRaises
    \/ LoopHead
    \/ LoopExit
    \/ Drain
    \/ DrainRaises
    \/ ClickFirst
    \/ Reclick
    \/ PollPass
    \/ PollRaises
    \/ PollTimeout
    \/ Poll2Pass
    \/ Poll2Timeout

Spec == Init /\ [][Next]_vars

\* a call on the arbitrary page whose scans and rounds are recorded
RoundInit ==
    /\ ExtrasIdle
    /\ DealersIdle
    /\ NameIdle
    /\ TitleIdle
    /\ SlugIdle
    /\ ImagesIdle
    /\ scenario = "any"
    /\ page = {}
    /\ incoming = {}
    /\ slow_wait \in SlowWaits
    /\ max_rounds = MaxWatchedRounds
    /\ pc = "start"
    /\ unique = {}
    /\ initial = {}
    /\ no_growth_rounds = 0
    /\ rounds = 0
    /\ now = 0
    /\ hard_deadline = 0
    /\ end = 0
    /\ jig = 0
    /\ exitPath = "none"
    /\ result = <<>>
    /\ watch = TRUE
    /\ now_unique = {}
    /\ clicks = <<>>
    /\ head = 0
    /\ dry = 0

RoundSpec == RoundInit /\ [][Next]_vars

\* ------------------------------------------------ collect_all_dealers
\* collect_inventory_clickhard has not been called
HarvestIdle ==
    /\ scenario = "any"
    /\ page = {}
    /\ incoming = {}
    /\ slow_wait = 0
    /\ max_rounds = 0
    /\ pc = "idle"
    /\ unique = {}
    /\ initial = {}
    /\ no_growth_rounds = 0
    /\ rounds = 0
    /\ now = 0
    /\ hard_deadline = 0
    /\ end = 0
    /\ jig = 0
    /\ exitPath = "none"
    /\ result = <<>>
    /\ watch = FALSE
    /\ now_unique = {}
    /\ clicks = <<>>
    /\ head = 0
    /\ dry = 0

DealersInit ==
    /\ ExtrasIdle
    /\ HarvestIdle
    /\ NameIdle
    /\ TitleIdle
    /\ SlugIdle
    /\ ImagesIdle
    /\ dpc = "start"
    /\ anchors \in AnchorLists
    /\ last = -1
    /\ stagn = 0
    /\ hrefs = <<>>

\* lines 349-357: open the directory page, wait for a first dealer link
DealersEnter ==
    /\ dpc = "start"
    /\ dpc' = "loop"
    /\ last' = -1
    /\ stagn' = 0
    /\ UNCHANGED <<xvars, hvars, nvars, tvars, svars, ivars, anchors, hrefs>>

\* lines 358-375: one pass of the while True loop: scroll, click the first
\* "show more" control if there is one, count the links, update stagn
DealersPass ==
    /\ dpc = "loop"
    /\ \E shown \in PageResponses(anchors) :
          LET cnt == Len(shown)
              stagnNew == IF cnt = last THEN stagn + 1 ELSE 0
          IN  /\ anchors' = shown
              /\ stagn' = stagnNew
              /\ last' = cnt
              /\ dpc' = IF stagnNew >= 2 THEN "collect" ELSE "loop"
    /\ UNCHANGED <<xvars, hvars, nvars, tvars, svars, ivars, hrefs>>

\* lines 377-384: read the anchors once more, filter, deduplicate, return
DealersCollect ==
    /\ dpc = "collect"
    /\ hrefs' = CollectDealers(anchors)
    /\ dpc' = "returned"
    /\ UNCHANGED <<xvars, hvars, nvars, tvars, svars, ivars, anchors, last, stagn>>

\* lines 351, 359-365, 372, 378: a call outside every try block raises
DealersRaises ==
    /\ dpc \in {"start", "loop", "collect"}
    /\ dpc' = "raised"
    /\ UNCHANGED <<xvars, hvars, nvars, tvars, svars, ivars, anchors, last, stagn, hrefs>>

DealersNext ==
    \/ DealersEnter
    \/ DealersPass
    \/ DealersCollect
    \/ DealersRaises

\* the program is sequential: it takes its next step whenever it has one
DealersSpec == DealersInit /\ [][DealersNext]_vars /\ WF_vars(DealersNext)

\* ------------------------------------------------ extract_vehicle_name
NameInit ==
    /\ ExtrasIdle
    /\ HarvestIdle
    /\ DealersIdle
    /\ TitleIdle
    /\ SlugIdle
    /\ ImagesIdle
    /\ npc = "start"
    /\ vsoup \in Soups
    /\ vurl \in Urls
    /\ vname = <<>>
    /\ raw_name = <<>>

\* lines 113-181: one call of extract_vehicle_name
NameResolve ==
    /\ npc = "start"
    /\ vname' = ExtractVehicleName(vsoup, vurl)
    /\ npc' = "returned"
    /\ UNCHANGED <<xvars, hvars, dvars, tvars, svars, ivars, vsoup, vurl, raw_name>>

\* crawl, lines 485-490: the name the call returned, looked at once more
NameFollowUp ==
    /\ npc = "returned"
    /\ raw_name' = FollowUpName(vname, vurl)
    /\ npc' = "named"
    /\ UNCHANGED <<xvars, hvars, dvars, tvars, svars, ivars, vsoup, vurl, vname>>

NameNext == NameResolve \/ NameFollowUp

NameSpec == NameInit /\ [][NameNext]_vars

\* ------------------------------------------- calls of the title functions
\* The words titles are written with: s is the text, year says whether it is
\* a 4-digit number in 1900..2099, generic whether its lower case is in
\* GENERIC_BAD_WORDS, letters counts its characters in [a-zA-Z].  Every word
\* is one run of [A-Za-z0-9].
WordTable == <<
    [s |-> <<"A", "q", "u", "a">>, year |-> FALSE, generic |-> FALSE, letters |-> 4],
    [s |-> <<"C", "a", "r">>, year |-> FALSE, generic |-> TRUE, letters |-> 3],
    [s |-> <<"2", "0", "1", "9">>, year |-> TRUE, generic |-> FALSE, letters |-> 0],
    [s |-> <<"X">>, year |-> FALSE, generic |-> FALSE, letters |-> 1],
    [s |-> <<"2", "1", "0", "0">>, year |-> FALSE, generic |-> FALSE, letters |-> 0],
    [s |-> <<"T", "o", "y", "o", "t", "a">>, year |-> FALSE, generic |-> FALSE, letters |-> 6],
    [s |-> <<"A", "u", "t", "o", "S", "t", "r", "e", "a", "m">>, year |-> FALSE, generic |-> FALSE, letters |-> 10],
    [s |-> <<"D", "e", "a", "l", "e", "r">>, year |-> FALSE, generic |-> TRUE, letters |-> 6],
    [s |-> <<"F", "i", "t">>, year |-> FALSE, generic |-> FALSE, letters |-> 3],
    [s |-> <<"x", "2", "0", "1", "9">>, year |-> FALSE, generic |-> FALSE, letters |-> 1],
    [s |-> <<"1", "9", "0", "0">>, year |-> TRUE, generic |-> FALSE, letters |-> 0]>>

\* What stands between two words: s is the text, sep says whether it is a
\* separator glyph with whitespace on both sides.  No gap holds a character
\* of [A-Za-z0-9].
GapTable == <<
    [s |-> <<" ">>, sep |-> FALSE],
    [s |-> <<"_">>, sep |-> FALSE],
    [s |-> <<" ", "-", " ">>, sep |-> TRUE],
    [s |-> <<" ", "|", " ">>, sep |-> TRUE],
    [s |-> <<" ", ":", " ">>, sep |-> TRUE],
    [s |-> <<" ", "EN DASH", " ">>, sep |-> TRUE],
    [s |-> <<"-">>, sep |-> FALSE]>>

\* titles beyond the generated ones
ExtraTitles == {
    \* "2019 Toyota Aqua - AutoStream Dealer"
    [w |-> <<3, 6, 1, 7, 8>>, g |-> <<1, 1, 3, 1>>],
    \* "X - Car"
    [w |-> <<4, 2>>, g |-> <<3>>],
    \* "Aqua Fit Toyota Aqua Fit Toyota Aqua Fit"
    [w |-> <<1, 9, 6, 1, 9, 6, 1, 9>>, g |-> <<1, 1, 1, 1, 1, 1, 1>>],
    \* "Aqua 2100"
    [w |-> <<1, 5>>, g |-> <<1>>],
    \* "Aqua x2019"
    [w |-> <<1, 10>>, g |-> <<1>>],
    \* "Car | Aqua 2019"
    [w |-> <<2, 1, 3>>, g |-> <<4, 1>>],
    \* "Car Dealer : Toyota"
    [w |-> <<2, 8, 6>>, g |-> <<1, 5>>],
    \* "Aqua-2019"
    [w |-> <<1, 3>>, g |-> <<7>>],
    \* "Aqua (en dash) Fit"
    [w |-> <<1, 9>>, g |-> <<6>>],
    \* "Aqua Car Fit Dealer Toyota"
    [w |-> <<1, 2, 9, 8, 6>>, g |-> <<1, 1, 1, 1>>],
    \* "1900"
    [w |-> <<11>>, g |-> <<>>],
    \* "X"
    [w |-> <<4>>, g |-> <<>>],
    \* "Aqua Fit - Toyota Fit"
    [w |-> <<1, 9, 6, 9>>, g |-> <<1, 3, 1>>]}

\* the generated titles use the first three words and the first three gaps
GenWords == {1, 2, 3}
GenGaps == {1, 2, 3}

GenTitles ==
    UNION {{[w |-> ws, g |-> gs] : ws \in [1..n -> GenWords],
                                   gs \in [1..(n - 1) -> GenGaps]} : n \in 1..MaxWords}

TitlePool == {EmptyTitle} \cup GenTitles \cup ExtraTitles

\* the text of a title: its words with its gaps between them
RECURSIVE BuildFrom(_, _)
BuildFrom(title, i) ==
    IF i > Len(title.w) THEN <<>>
    ELSE IF i = Len(title.w) THEN WordTable[title.w[i]].s
    ELSE WordTable[title.w[i]].s \o GapTable[title.g[i]].s \o BuildFrom(title, i + 1)

Build(title) == BuildFrom(title, 1)

HasYearWord(title) == \E i \in 1..Len(title.w) : WordTable[title.w[i]].year

\* the title with the year word y added at its end after gap g
WithYear(title, y, g) ==
    [w |-> Append(title.w, y),
     g |-> IF title.w = <<>> THEN <<>> ELSE Append(title.g, g)]

TitleInit ==
    /\ ExtrasIdle
    /\ HarvestIdle
    /\ DealersIdle
    /\ NameIdle
    /\ SlugIdle
    /\ ImagesIdle
    /\ tpc = "start"
    /\ tfun = "none"
    /\ ttitle \in TitlePool
    /\ targ = Build(ttitle)
    /\ tres = 0
    /\ tprev = NoCall

\* lines 50-57: one call of _score_title
TScore ==
    /\ tpc = "start"
    /\ tfun' = "score"
    /\ tres' = ScoreTitle(targ)
    /\ tpc' = "returned"
    /\ UNCHANGED <<xvars, hvars, dvars, nvars, svars, ivars, ttitle, targ, tprev>>

\* lines 102-111: one call of looks_generic
TGeneric ==
    /\ tpc = "start"
    /\ tfun' = "generic"
    /\ tres' = LooksGeneric(targ)
    /\ tpc' = "returned"
    /\ UNCHANGED <<xvars, hvars, dvars, nvars, svars, ivars, ttitle, targ, tprev>>

\* lines 59-66: one call of _clean_title_piece
TClean ==
    /\ tpc = "start"
    /\ tfun' = "clean"
    /\ tres' = CleanTitlePiece(targ)
    /\ tpc' = "returned"
    /\ UNCHANGED <<xvars, hvars, dvars, nvars, svars, ivars, ttitle, targ, tprev>>

\* the caller scores a second candidate: the one just scored, which has no
\* year, with a year added after a space or an underscore
TAddYear ==
    /\ tpc = "returned"
    /\ tfun = "score"
    /\ ~tprev.called
    /\ ~HasYearWord(ttitle)
    /\ \E y \in {3, 11}, g \in {1, 2} :
           /\ ttitle' = WithYear(ttitle, y, g)
           /\ targ' = Build(WithYear(ttitle, y, g))
    /\ tprev' = [called |-> TRUE, title |-> ttitle, res |-> tres]
    /\ tpc' = "start"
    /\ tfun' = "none"
    /\ tres' = 0
    /\ UNCHANGED <<xvars, hvars, dvars, nvars, svars, ivars>>

TitleNext == TScore \/ TGeneric \/ TClean \/ TAddYear

TitleSpec == TitleInit /\ [][TitleNext]_vars

\* ------------------------------------------------- calls of slug_from_url
\* The words of a last path segment: s is the text, shown the word as the
\* slug shows it (capitalised unless it is fully upper-case), id whether
\* it is a run of 3 or more digits.
SlugWordTable == <<
    [s |-> <<"t", "o", "y", "o", "t", "a">>, shown |-> <<"T", "o", "y", "o", "t", "a">>, id |-> FALSE],
    [s |-> <<"B", "M", "W">>, shown |-> <<"B", "M", "W">>, id |-> FALSE],
    [s |-> <<"2", "0", "1", "9">>, shown |-> <<"2", "0", "1", "9">>, id |-> TRUE],
    [s |-> <<"1", "2">>, shown |-> <<"1", "2">>, id |-> FALSE],
    [s |-> <<"4", "8", "2", "1", "3">>, shown |-> <<"4", "8", "2", "1", "3">>, id |-> TRUE],
    [s |-> <<"a", "q", "u", "a">>, shown |-> <<"A", "q", "u", "a">>, id |-> FALSE],
    [s |-> <<"x", "5">>, shown |-> <<"X", "5">>, id |-> FALSE],
    [s |-> <<"i", "X">>, shown |-> <<"I", "x">>, id |-> FALSE]>>

\* what precedes the last path segment
UrlPrefixes == <<
    \* "https://s/"
    <<"h", "t", "t", "p", "s", ":", "/", "/", "s", "/">>,
    \* "https://s/listings/"
    <<"h", "t", "t", "p", "s", ":", "/", "/", "s", "/", "l", "i", "s", "t", "i", "n", "g", "s", "/">>,
    \* "https://s"
    <<"h", "t", "t", "p", "s", ":", "/", "/", "s">>>>

\* what follows the last path segment
UrlSuffixes == <<
    \* ""
    <<>>,
    \* "/"
    <<"/">>,
    \* "?ref=1"
    <<"?", "r", "e", "f", "=", "1">>,
    \* "#top"
    <<"#", "t", "o", "p">>,
    \* "/?ref=1"
    <<"/", "?", "r", "e", "f", "=", "1">>>>

\* a URL is [pre, w, suf]: a prefix, the words of its last path segment
\* joined by hyphens, a suffix
GenSlugWords == {1, 2, 3, 4}
GenPrefixes == {1, 2}
GenSuffixes == {1, 2, 3}

GenUrls ==
    UNION {{[pre |-> p, w |-> ws, suf |-> x] :
               p \in GenPrefixes, ws \in [1..n -> GenSlugWords], x \in GenSuffixes} :
           n \in 1..MaxSlugWords}

\* URLs beyond the generated ones
ExtraUrls == {
    \* "https://s/listings/toyota-aqua-2019-48213"
    [pre |-> 2, w |-> <<1, 6, 3, 5>>, suf |-> 1],
    \* "https://s"
    [pre |-> 3, w |-> <<>>, suf |-> 1],
    \* "https://s/"
    [pre |-> 1, w |-> <<>>, suf |-> 1],
    \* "https://s?ref=1"
    [pre |-> 3, w |-> <<>>, suf |-> 3],
    \* "https://s/listings/BMW-x5#top"
    [pre |-> 2, w |-> <<2, 7>>, suf |-> 4],
    \* "https://s/iX-48213/?ref=1"
    [pre |-> 1, w |-> <<8, 5>>, suf |-> 5],
    \* "https://s/48213"
    [pre |-> 1, w |-> <<5>>, suf |-> 1]}

UrlPool == GenUrls \cup ExtraUrls

\* the words of a segment joined by hyphens, from word i on
RECURSIVE SegmentFrom(_, _)
SegmentFrom(ws, i) ==
    IF i > Len(ws) THEN <<>>
    ELSE IF i = Len(ws) THEN SlugWordTable[ws[i]].s
    ELSE SlugWordTable[ws[i]].s \o <<"-">> \o SegmentFrom(ws, i + 1)

\* the text of a URL
BuildUrl(u) == UrlPrefixes[u.pre] \o SegmentFrom(u.w, 1) \o UrlSuffixes[u.suf]

SlugInit ==
    /\ ExtrasIdle
    /\ HarvestIdle
    /\ DealersIdle
    /\ NameIdle
    /\ TitleIdle
    /\ ImagesIdle
    /\ spc = "start"
    /\ swords \in UrlPool
    /\ surl = BuildUrl(swords)
    /\ sres = <<>>

\* lines 86-100: one call of slug_from_url
SlugCall ==
    /\ spc = "start"
    /\ sres' = SlugFromUrl(surl)
    /\ spc' = "returned"
    /\ UNCHANGED <<xvars, hvars, dvars, nvars, tvars, ivars, swords, surl>>

SlugNext == SlugCall

SlugSpec == SlugInit /\ [][SlugNext]_vars

\* ------------------------------------------------ calls of extract_images
ImagesInit ==
    /\ ExtrasIdle
    /\ HarvestIdle
    /\ DealersIdle
    /\ NameIdle
    /\ TitleIdle
    /\ SlugIdle
    /\ ipc = "start"
    /\ ibase = ListingUrl
    /\ irefs \in RefLists
    /\ iout1 = <<>>
    /\ iout2 = <<>>

\* lines 68-84: the first call of extract_images
ImagesFirstCall ==
    /\ ipc = "start"
    /\ \E order \in Orders(CollectUrls(ibase, RefTexts(irefs))) :
           iout1' = SortedUrls(order)
    /\ ipc' = "once"
    /\ UNCHANGED <<xvars, hvars, dvars, nvars, tvars, svars, ibase, irefs, iout2>>

\* lines 68-84: a second call on the same page with the same URL
ImagesSecondCall ==
    /\ ipc = "once"
    /\ \E order \in Orders(CollectUrls(ibase, RefTexts(irefs))) :
           iout2' = SortedUrls(order)
    /\ ipc' = "twice"
    /\ UNCHANGED <<xvars, hvars, dvars, nvars, tvars, svars, ibase, irefs, iout1>>

ImagesNext == ImagesFirstCall \/ ImagesSecondCall

ImagesSpec == ImagesInit /\ [][ImagesNext]_vars

\* ------------------------------ extract_images on a page of elements
ElementsInit ==
    /\ HarvestIdle
    /\ DealersIdle
    /\ NameIdle
    /\ TitleIdle
    /\ SlugIdle
    /\ ImagesIdle
    /\ DownloadIdle
    /\ ShowMoreIdle
    /\ ClickIdle
    /\ epc = "start"
    /\ epage \in ElementPages
    /\ eout = <<>>

\* lines 68-84: extract_images(ListingUrl, epage)
ElementsCall ==
    /\ epc = "start"
    /\ \E order \in Orders(ElementUrls(ListingUrl, epage)) :
           eout' = SortedUrls(order)
    /\ epc' = "returned"
    /\ UNCHANGED <<hvars, dvars, nvars, tvars, svars, ivars, fvars, cvars, wvars, epage>>

ElementsNext == ElementsCall

ElementsSpec == ElementsInit /\ [][ElementsNext]_vars

\* --------------------------------------------- calls of find_show_more
ShowMoreInit ==
    /\ HarvestIdle
    /\ DealersIdle
    /\ NameIdle
    /\ TitleIdle
    /\ SlugIdle
    /\ ImagesIdle
    /\ DownloadIdle
    /\ ElementsIdle
    /\ ClickIdle
    /\ fpc = "start"
    /\ fpage \in ElemPages
    /\ fraise \in 0..LookupCount
    /\ fres = 0

\* lines 277-302: find_show_more(driver)
ShowMoreCall ==
    /\ fpc = "start"
    /\ fres' = FindShowMore(fpage, fraise)
    /\ fpc' = "returned"
    /\ UNCHANGED <<hvars, dvars, nvars, tvars, svars, ivars, evars, cvars, wvars, fpage, fraise>>

ShowMoreNext == ShowMoreCall

ShowMoreSpec == ShowMoreInit /\ [][ShowMoreNext]_vars

\* --------------------------------------------------- calls of click_hard
\* the statements of the first try block that may raise (306-310): 0 for
\* none, then scrollIntoView, DISMISS_JS, the clickability wait, el.click()
NativeSteps == 0..4

\* what the driver does in one call: where the first block raises, and
\* whether each of the three later clicks raises
ClickScripts ==
    [native : NativeSteps, script : BOOLEAN, events : BOOLEAN, chain : BOOLEAN]

\* raises[i] of ClickHard for a behaviour of the driver
RaisesOf(c) ==
    [i \in ClickStrategies |->
        CASE i = 1 -> c.native # 0
          [] i = 2 -> c.script
          [] i = 3 -> c.events
          [] OTHER -> c.chain]

ClickInit ==
    /\ HarvestIdle
    /\ DealersIdle
    /\ NameIdle
    /\ TitleIdle
    /\ SlugIdle
    /\ ImagesIdle
    /\ DownloadIdle
    /\ ElementsIdle
    /\ ShowMoreIdle
    /\ cpc = "native"
    /\ cdriver \in ClickScripts
    /\ cok = FALSE
    /\ ctried = <<>>
    /\ cret = FALSE

\* lines 305-313: ok = False and the first try block
ClickNative ==
    /\ cpc = "native"
    /\ ctried' = Append(ctried, 1)
    /\ cok' = (cdriver.native = 0)
    /\ cpc' = "script"
    /\ UNCHANGED <<hvars, dvars, nvars, tvars, svars, ivars, evars, fvars, wvars, cdriver, cret>>

\* lines 314-319 with the test of ok left out
ClickScriptedAlways ==
    /\ cpc = "script"
    /\ ctried' = Append(ctried, 2)
    /\ cok' = ~cdriver.script
    /\ cpc' = "events"
    /\ UNCHANGED <<hvars, dvars, nvars, tvars, svars, ivars, evars, fvars, wvars, cdriver, cret>>

\* lines 314-319: if not ok, arguments[0].click()
ClickScripted ==
    /\ cpc = "script"
    /\ IF cok THEN UNCHANGED <<ctried, cok>>
       ELSE /\ ctried' = Append(ctried, 2)
            /\ cok' = ~cdriver.script
    /\ cpc' = "events"
    /\ UNCHANGED <<hvars, dvars, nvars, tvars, svars, ivars, evars, fvars, wvars, cdriver, cret>>

\* lines 320-325: if not ok, ROBUST_CLICK_JS
ClickEvents ==
    /\ cpc = "events"
    /\ IF cok THEN UNCHANGED <<ctried, cok>>
       ELSE /\ ctried' = Append(ctried, 3)
            /\ cok' = ~cdriver.events
    /\ cpc' = "chain"
    /\ UNCHANGED <<hvars, dvars, nvars, tvars, svars, ivars, evars, fvars, wvars, cdriver, cret>>

\* lines 326-331: if not ok, the ActionChains click
ClickChain ==
    /\ cpc = "chain"
    /\ IF cok THEN UNCHANGED <<ctried, cok>>
       ELSE /\ ctried' = Append(ctried, 4)
            /\ cok' = ~cdriver.chain
    /\ cpc' = "return"
    /\ UNCHANGED <<hvars, dvars, nvars, tvars, svars, ivars, evars, fvars, wvars, cdriver, cret>>

\* line 332: return ok
ClickReturn ==
    /\ cpc = "return"
    /\ cret' = cok
    /\ cpc' = "returned"
    /\ UNCHANGED <<hvars, dvars, nvars, tvars, svars, ivars, evars, fvars, wvars, cdriver, cok, ctried>>

ClickNext ==
    \/ ClickNative
    \/ ClickScripted
    \/ ClickEvents
    \/ ClickChain
    \/ ClickReturn

ClickSpec == ClickInit /\ [][ClickNext]_vars

\* ------------------------------------------- crawl: the image downloads
\* The images of one crawl in the order lines 473 and 500 visit them; a
\* later run of the script meets the same images and the files the earlier
\* runs left.
DownloadInit ==
    /\ HarvestIdle
    /\ DealersIdle
    /\ NameIdle
    /\ TitleIdle
    /\ SlugIdle
    /\ ImagesIdle
    /\ ElementsIdle
    /\ ShowMoreIdle
    /\ ClickIdle
    /\ wpc = "head"
    /\ run = "first"
    /\ imgk = 1
    /\ body \in [1..MaxImages -> 0..MaxChunks]
    /\ dest = [i \in 1..MaxImages |-> Absent]
    /\ tmp = [i \in 1..MaxImages |-> Absent]
    /\ before = [i \in 1..MaxImages |-> Absent]
    /\ outcome = [i \in 1..MaxImages |-> "none"]

\* lines 506-507: continue
DownloadSkip ==
    /\ wpc = "head"
    /\ imgk <= MaxImages
    /\ Downloaded(dest[imgk])
    /\ outcome' = [outcome EXCEPT ![imgk] = "skipped"]
    /\ imgk' = imgk + 1
    /\ UNCHANGED <<hvars, dvars, nvars, tvars, svars, ivars, evars, fvars, cvars,
                   wpc, run, body, dest, tmp, before>>

\* line 509: the request is answered and its status is good
DownloadGet ==
    /\ wpc = "head"
    /\ imgk <= MaxImages
    /\ ~Downloaded(dest[imgk])
    /\ wpc' = "got"
    /\ UNCHANGED <<hvars, dvars, nvars, tvars, svars, ivars, evars, fvars, cvars,
                   run, imgk, body, dest, tmp, before, outcome>>

\* lines 510-511: open(tmp, "wb") creates or empties the .part file
DownloadOpen ==
    /\ wpc = "got"
    /\ tmp' = [tmp EXCEPT ![imgk] = 0]
    /\ wpc' = "write"
    /\ UNCHANGED <<hvars, dvars, nvars, tvars, svars, ivars, evars, fvars, cvars,
                   run, imgk, body, dest, before, outcome>>

\* lines 512-513 writing the chunk to the destination itself
DownloadChunkToDest ==
    /\ wpc = "write"
    /\ tmp[imgk] < body[imgk]
    /\ tmp' = [tmp EXCEPT ![imgk] = tmp[imgk] + 1]
    /\ dest' = [dest EXCEPT ![imgk] = tmp[imgk] + 1]
    /\ UNCHANGED <<hvars, dvars, nvars, tvars, svars, ivars, evars, fvars, cvars,
                   wpc, run, imgk, body, before, outcome>>

\* lines 512-513: one chunk of the body is written to the .part file
DownloadChunk ==
    /\ wpc = "write"
    /\ tmp[imgk] < body[imgk]
    /\ tmp' = [tmp EXCEPT ![imgk] = tmp[imgk] + 1]
    /\ UNCHANGED <<hvars, dvars, nvars, tvars, svars, ivars, evars, fvars, cvars,
                   wpc, run, imgk, body, dest, before, outcome>>

\* lines 514, 517: the body has ended, the .part file becomes the destination
DownloadRename ==
    /\ wpc = "write"
    /\ tmp[imgk] = body[imgk]
    /\ dest' = [dest EXCEPT ![imgk] = tmp[imgk]]
    /\ tmp' = [tmp EXCEPT ![imgk] = Absent]
    /\ outcome' = [outcome EXCEPT ![imgk] = "fetched"]
    /\ imgk' = imgk + 1
    /\ wpc' = "head"
    /\ UNCHANGED <<hvars, dvars, nvars, tvars, svars, ivars, evars, fvars, cvars,
                   run, body, before>>

\* lines 515-517: a statement of lines 509-514 raises an Exception: the
\* request, the status, open, a read of the body, a write, the rename
DownloadFails ==
    /\ \/ wpc = "head" /\ imgk <= MaxImages /\ ~Downloaded(dest[imgk])
       \/ wpc \in {"got", "write"}
    /\ outcome' = [outcome EXCEPT ![imgk] = "failed"]
    /\ imgk' = imgk + 1
    /\ wpc' = "head"
    /\ UNCHANGED <<hvars, dvars, nvars, tvars, svars, ivars, evars, fvars, cvars,
                   run, body, dest, tmp, before>>

\* the run is stopped while it is in lines 509-514: KeyboardInterrupt is no
\* Exception and leaves crawl, a killed process runs no handler
DownloadInterrupted ==
    /\ wpc \in {"got", "write"}
    /\ outcome' = [outcome EXCEPT ![imgk] = "cut"]
    /\ wpc' = "dead"
    /\ UNCHANGED <<hvars, dvars, nvars, tvars, svars, ivars, evars, fvars, cvars,
                   run, imgk, body, dest, tmp, before>>

\* line 500: the loops are over
DownloadDone ==
    /\ wpc = "head"
    /\ imgk > MaxImages
    /\ wpc' = "done"
    /\ UNCHANGED <<hvars, dvars, nvars, tvars, svars, ivars, evars, fvars, cvars,
                   run, imgk, body, dest, tmp, before, outcome>>

\* the script is started again on the same output directory
DownloadAgain ==
    /\ wpc \in {"done", "dead"}
    /\ run' = "later"
    /\ imgk' = 1
    /\ wpc' = "head"
    /\ before' = dest
    /\ outcome' = [i \in 1..MaxImages |-> "none"]
    /\ UNCHANGED <<hvars, dvars, nvars, tvars, svars, ivars, evars, fvars, cvars,
                   body, dest, tmp>>

DownloadNext ==
    \/ DownloadSkip
    \/ DownloadGet
    \/ DownloadOpen
    \/ DownloadChunk
    \/ DownloadRename
    \/ DownloadFails
    \/ DownloadInterrupted
    \/ DownloadDone
    \/ DownloadAgain

DownloadSpec == DownloadInit /\ [][DownloadNext]_vars

\* ------------------------------------------------------------- claims
IsAscending(s) == \A i \in 1..Len(s) - 1 : s[i] < s[i + 1]

\* C1: within one call the discovered set never loses a link: every link
\* of unique is still in unique after every step of the call.
C1_NeverLosesLink == [][unique \subseteq unique']_vars

\* C2: no exception propagates out of collect_inventory_clickhard: the call
\* never ends by raising, whichever interaction fails.
C2_NoExceptionPropagates == pc # "raised"

\* C3: on a page whose trigger is always found and whose link count never
\* grows, the call runs at most min(3, max_rounds) rounds, every finished
\* round is stagnant, and it returns the initially visible links.
C3_StuckStopsWithinThree ==
    scenario = "stuck" =>
        /\ rounds <= Min(StagnationLimit, max_rounds)
        /\ pc \in {"loop", "returned"} => no_growth_rounds = rounds
        /\ pc = "returned" => result = SortedList(initial)

C3_Witness ==
    /\ scenario = "stuck"
    /\ pc = "returned"
    /\ exitPath = "stagnation"
    /\ rounds = StagnationLimit
    /\ max_rounds > StagnationLimit
    /\ Len(result) >= 2

\* C4: the call never exceeds its hard deadline: no click and no poll pass
\* (jiggle and scan) starts once the clock has reached hard_deadline.
C4_NothingPastDeadline ==
    (pc \in {"click", "reclick"} \/ (pc \in {"poll", "poll2"} /\ now < end))
        => now < hard_deadline

\* C5: the round counter never exceeds max_rounds, and a round starts
\* (rounds is incremented, by one) only while rounds < max_rounds and the
\* clock is before hard_deadline = start + max(240, 4*W).
C5_RoundsWithinLimits ==
    /\ [](rounds <= max_rounds)
    /\ [][rounds' # rounds =>
            /\ rounds' = rounds + 1
            /\ rounds < max_rounds
            /\ now < hard_deadline
            /\ hard_deadline = Max(HardStopFloor, DeadlineFactor * slow_wait)]_vars

C5_Witness ==
    /\ pc = "returned"
    /\ exitPath = "deadline"
    /\ rounds >= 2
    /\ rounds < max_rounds

\* C6: on a page whose trigger is found for exactly two clicks, each adding
\* links, the call returns exactly the links in the DOM (the initial ones
\* and all that the two clicks added), however the added links arrive.
C6_TwoClicksReturnAll ==
    (scenario = "two" /\ pc = "returned") => result = SortedList(page)

\* C7: the dealer-directory harvest terminates on every page, also when
\* the number of dealer links changes at every pass.
C7_DealersHarvestTerminates == <>(dpc \in {"returned", "raised"})

FirstIndex(a, h) == CHOOSE i \in 1..Len(a) : a[i] = h /\ \A j \in 1..(i - 1) : a[j] # h

C9_ReturnsSortedSet ==
    pc = "returned" => IsAscending(result) /\ Range(result) = unique

C9_Witness ==
    /\ pc = "returned"
    /\ exitPath = "notrigger"
    /\ Cardinality(unique) = MaxLinks
    /\ rounds >= 2

\* C10: for every page content and every URL, also a page without title
\* candidates and a URL with an empty path, extract_vehicle_name returns a
\* non-empty string.
C10_NameNeverEmpty == npc = "returned" => Len(vname) >= 1

C10_Witness ==
    /\ npc = "returned"
    /\ GatherCandidates(vsoup) = <<>>
    /\ UrlParse(vurl).path = <<>>
    /\ vname = DefaultName

\* the number of characters of [a-zA-Z] in the words of a title from word i on
RECURSIVE LettersFrom(_, _)
LettersFrom(title, i) ==
    IF i > Len(title.w) THEN 0
    ELSE WordTable[title.w[i]].letters + LettersFrom(title, i + 1)

\* the number of tokens of a title that are in the generic stop-set
GenericWords(title) ==
    Cardinality({i \in 1..Len(title.w) : WordTable[title.w[i]].generic})

\* C11: looks_generic(t) is true exactly when t has fewer than 3 alphabetic
\* characters or at least half of its tokens are in the generic stop-set, so
\* that 1 generic token of 3 or 2 of 5 do not make t generic.
C11_GenericIffHalf ==
    (tpc = "returned" /\ tfun = "generic") =>
        (tres <=> \/ LettersFrom(ttitle, 1) < 3
                  \/ 2 * GenericWords(ttitle) >= Len(ttitle.w))

\* C12: _score_title(t) is 5 if some token of t is a 4-digit number in
\* 1900..2099, plus the number of tokens capped at 8, minus 2 for every token
\* in the generic stop-set; a year token next to an underscore earns the 5.
C12_ScoreByTokens ==
    (tpc = "returned" /\ tfun = "score") =>
        tres = 5 * (IF HasYearWord(ttitle) THEN 1 ELSE 0)
               + Min(Len(ttitle.w), 8) - 2 * GenericWords(ttitle)

\* C13: a candidate obtained from one without a year token by adding one year
\* token in 1900..2099, all other tokens equal, scores strictly higher, also
\* when the candidate already has 8 or more tokens.
C13_YearScoresHigher ==
    (tpc = "returned" /\ tfun = "score" /\ tprev.called) => tres > tprev.res

\* the text of words a..b of a title with the gaps between them
Piece(title, a, b) ==
    Build([w |-> SubSeq(title.w, a, b), g |-> SubSeq(title.g, a, b - 1)])

\* the pieces a title falls into when it is cut at every gap that is a
\* separator glyph between whitespace; start is the first word of the piece
\* being read and i the gap looked at
RECURSIVE FragmentsFrom(_, _, _)
FragmentsFrom(title, start, i) ==
    IF i > Len(title.g) THEN <<Piece(title, start, Len(title.w))>>
    ELSE IF GapTable[title.g[i]].sep
         THEN <<Piece(title, start, i)>> \o FragmentsFrom(title, i + 1, i + 1)
         ELSE FragmentsFrom(title, start, i + 1)

Fragments(title) == FragmentsFrom(title, 1, 1)

\* the fragments of at least 2 characters
LongFragments(title) == SelectSeq(Fragments(title), LAMBDA f : Len(f) >= 2)

\* r is the fragment of fr with the greatest _score_title, the earliest
\* one if several have it
IsEarliestBest(fr, r) ==
    \E i \in 1..Len(fr) :
        /\ r = fr[i]
        /\ \A j \in 1..Len(fr) : ScoreTitle(fr[j]) <= ScoreTitle(fr[i])
        /\ \A j \in 1..(i - 1) : ScoreTitle(fr[j]) < ScoreTitle(fr[i])

\* "2019 Toyota Aqua - AutoStream Dealer" and "2019 Toyota Aqua"
ExampleTitle == [w |-> <<3, 6, 1, 7, 8>>, g |-> <<1, 1, 3, 1>>]
ExampleCleaned == [w |-> <<3, 6, 1>>, g |-> <<1, 1>>]

\* C14 as stated: _clean_title_piece(t) cuts t at each separator glyph with
\* whitespace on both sides and, when more than one fragment results, returns
\* the fragment with the greatest _score_title, the earliest one on a tie.
C14_CleanKeepsBestFragment ==
    (tpc = "returned" /\ tfun = "clean" /\ Len(Fragments(ttitle)) > 1) =>
        IsEarliestBest(Fragments(ttitle), tres)

\* C14 as amended: fragments shorter than 2 characters are dropped first; of
\* the fragments left _clean_title_piece(t) returns the one with the greatest
\* _score_title, the earliest on a tie; if none is left it returns the whole
\* stripped text; "2019 Toyota Aqua - AutoStream Dealer" is cleaned to
\* "2019 Toyota Aqua".
C14_CleanKeepsBestLongFragment ==
    (tpc = "returned" /\ tfun = "clean") =>
        /\ IF LongFragments(ttitle) = <<>> THEN tres = targ
           ELSE IsEarliestBest(LongFragments(ttitle), tres)
        /\ ttitle = ExampleTitle => tres = Build(ExampleCleaned)

C14_Witness ==
    /\ tpc = "returned"
    /\ tfun = "clean"
    /\ ttitle = ExampleTitle
    /\ Len(LongFragments(ttitle)) = 2
    /\ tres = Build(ExampleCleaned)

\* the texts a page of the pool offers, in the order metadata, headings,
\* breadcrumbs, structured-data names
TextsInOrder(soup) ==
    [i \in 1..Len(soup.meta) |->
        IF soup.meta[i].content # <<>> THEN soup.meta[i].content
        ELSE soup.meta[i].value]
    \o soup.headings \o soup.crumbs
    \o (IF soup.ld = <<LdProduct>> THEN <<LdName1, LdName2, LdName3>> ELSE <<>>)

\* the cleaned form of every text, in the same order
CleanedInOrder(soup) ==
    LET texts == TextsInOrder(soup)
    IN  [i \in 1..Len(texts) |-> CleanTitlePiece(NormalizeSpaces(texts[i]))]

\* the cleaned candidates that are not generic, in the same order
Survivors(soup) ==
    SelectSeq(CleanedInOrder(soup), LAMBDA t : t # <<>> /\ ~LooksGeneric(t))

\* sv[i] has the greatest score of sv, and no earlier member has it
IsFirstBest(sv, sc, i) ==
    /\ \A j \in 1..Len(sv) : sc[j] <= sc[i]
    /\ \A j \in 1..(i - 1) : sc[j] < sc[i]

\* C15: when some cleaned candidate is not generic, extract_vehicle_name
\* returns a cleaned non-generic candidate whose score no other one exceeds,
\* and of those with that score the one gathered first (metadata, headings,
\* breadcrumbs, structured-data names).
C15_BestCandidateFirstGathered ==
    npc = "returned" =>
        LET sv == Survivors(vsoup)
            sc == [k \in 1..Len(sv) |-> ScoreTitle(sv[k])]
        IN  sv # <<>> =>
                \E i \in 1..Len(sv) : vname = sv[i] /\ IsFirstBest(sv, sc, i)

C15_Witness ==
    /\ npc = "returned"
    /\ Len(Survivors(vsoup)) >= 2
    /\ vsoup.ld = <<LdProduct>>
    /\ vname = Build(ExampleCleaned)
    /\ ScoreTitle(LdName1) = ScoreTitle(vname)
    /\ LdName1 # vname

\* the slug of every URL of UrlList, as slug_from_url is documented to
\* derive it
SlugList == <<
    \* "Toyota Aqua 2019"
    <<"T", "o", "y", "o", "t", "a", " ", "A", "q", "u", "a", " ", "2", "0", "1", "9">>,
    \* ""
    <<>>,
    \* "Car"
    <<"C", "a", "r">>,
    \* "BMW X5"
    <<"B", "M", "W", " ", "X", "5">>,
    \* "Listings"
    <<"L", "i", "s", "t", "i", "n", "g", "s">>>>

ExpectedSlug(u) == SlugList[CHOOSE i \in 1..Len(UrlList) : UrlList[i] = u]

\* C16: when no candidate survives cleaning and the generic filter,
\* extract_vehicle_name returns the slug of the URL if it is not empty and
\* not generic and "Car" otherwise; while a non-generic candidate exists it
\* returns a candidate, not the slug or the default.
C16_FallbackOnlyWithoutCandidates ==
    npc = "returned" =>
        LET sv == Survivors(vsoup)
            slug == ExpectedSlug(vurl)
        IN  IF sv = <<>>
            THEN vname = IF slug # <<>> /\ ~LooksGeneric(slug) THEN slug
                         ELSE DefaultName
            ELSE vname \in Range(sv)

\* the page's only candidate is "Vehicle Summary" and the slug is returned
C16_Witness ==
    /\ npc = "returned"
    /\ TextsInOrder(vsoup) = <<TitleList[2]>>
    /\ Survivors(vsoup) = <<>>
    /\ vurl = UrlList[1]
    /\ vname = SlugList[1]

\* the words of the segment without one trailing run of 3 or more digits
\* that follows a hyphen
WordsKept(ws) ==
    IF Len(ws) >= 2 /\ SlugWordTable[ws[Len(ws)]].id
    THEN SubSeq(ws, 1, Len(ws) - 1) ELSE ws

\* the words as the slug shows them, with one space between them
RECURSIVE ShownFrom(_, _)
ShownFrom(ws, i) ==
    IF i > Len(ws) THEN <<>>
    ELSE IF i = Len(ws) THEN SlugWordTable[ws[i]].shown
    ELSE SlugWordTable[ws[i]].shown \o <<" ">> \o ShownFrom(ws, i + 1)

\* C17: slug_from_url takes the final path segment, removes one trailing
\* hyphen followed by 3 or more digits, replaces hyphens by spaces and
\* capitalises every word that is not fully upper-case; the segment
\* toyota-aqua-2019-48213 yields "Toyota Aqua 2019" and a URL with an empty
\* path yields the empty string.
C17_SlugOfLastSegment ==
    spc = "returned" => sres = ShownFrom(WordsKept(swords.w), 1)

C17_Witness ==
    /\ spc = "returned"
    /\ swords = [pre |-> 2, w |-> <<1, 6, 3, 5>>, suf |-> 1]
    /\ sres = SlugList[1]

\* scheme and host of the page, and the directory of its path
PageOrigin == <<"h", "t", "t", "p", "s", ":", "/", "/", "s">>
PageDir == <<"/", "l", "i", "s", "t", "i", "n", "g", "s", "/">>

\* the absolute URL of a reference without its query and fragment
ExpectedUrl(r) ==
    (IF r.head = <<>> THEN PageOrigin ELSE r.head)
    \o (IF r.rel THEN PageDir \o r.path ELSE r.path)
    \o (IF r.params # <<>> THEN <<";">> \o r.params ELSE <<>>)

PageRefs == {RefTable[irefs[i]] : i \in 1..Len(irefs)}

\* C18: every entry extract_images returns is a reference of the page
\* without its query and fragment, no entry carries a "?" or a "#", and no
\* entry occurs twice: references that differ only in query or fragment
\* give one entry.
C18_QueryFragmentCollapse ==
    ipc \in {"once", "twice"} =>
        /\ \A k \in 1..Len(iout1) : \E r \in PageRefs : iout1[k] = ExpectedUrl(r)
        /\ \A k \in 1..Len(iout1) :
               \A c \in 1..Len(iout1[k]) : iout1[k][c] \notin {"?", "#"}
        /\ \A j, k \in 1..Len(iout1) : iout1[j] = iout1[k] => j = k

\* "/i/a.jpg?v=1" and "/i/a.jpg?v=2#t" give the one entry "https://s/i/a.jpg"
C18_Witness ==
    /\ ipc = "once"
    /\ irefs = <<2, 3>>
    /\ iout1 = <<ExpectedUrl(RefTable[1])>>

\* C19: extract_images keeps a reference exactly when the path of its URL
\* ends, case-insensitively, in .jpg .jpeg .png .webp or .gif, whatever its
\* host and params are.
C19_KeptIffPathIsImage ==
    ipc \in {"once", "twice"} =>
        \A r \in PageRefs : (ExpectedUrl(r) \in Range(iout1)) <=> r.img

\* C20: two calls of extract_images on the same page with the same URL
\* return the same list, and the list is strictly ascending in the order
\* of Python strings, whatever the order of the references in the page.
C20_SameSortedOutput ==
    ipc = "twice" =>
        /\ iout1 = iout2
        /\ \A k \in 1..(Len(iout1) - 1) : StrLess(iout1[k], iout1[k + 1])

\* the page holds "/i/b.PNG" before "/i/a.jpg"
C20_Witness ==
    /\ ipc = "twice"
    /\ irefs = <<5, 1>>
    /\ iout2 = <<ExpectedUrl(RefTable[1]), ExpectedUrl(RefTable[5])>>

\* the references the three surfaces of a page hold: the non-empty values
\* of the four attributes of the image elements, the targets of the
\* hyperlinks, and every url(...) of the style attributes
SurfaceRefs(pg) ==
    {pg.imgs[i][a] : <<i, a>> \in {<<j, b>> \in (1..Len(pg.imgs)) \X (1..4) :
                                       pg.imgs[j][b] # 0}}
    \cup {pg.links[i] : i \in {j \in 1..Len(pg.links) : pg.links[j] # 0}}
    \cup UNION {Range(StyleTable[pg.styles[i]].urls) : i \in 1..Len(pg.styles)}

\* C21: every reference found on the three surfaces of the page (image
\* attributes, hyperlink targets, every url(...) of every style attribute,
\* the second and later ones included) that passes the extension filter is
\* in the list extract_images returns.
C21_EverySurfaceReference ==
    epc = "returned" =>
        \A r \in SurfaceRefs(epage) :
            HasImgExt(ExpectedUrl(RefTable[r])) =>
                ExpectedUrl(RefTable[r]) \in Range(eout)

\* an element one of the four strategies looks for: a button or hyperlink
\* with the words, a rel=next hyperlink, an element of one of the classes,
\* or a button
IsTriggerCandidate(e) ==
    \/ e.tag \in {"button", "a"} /\ e.text \in {"show more", "load more"}
    \/ e.tag = "a" /\ e.rel = "next"
    \/ e.cls # {}
    \/ e.tag = "button"
    \/ e.tag = "a" /\ e.role = "button"

\* C22: the element find_show_more returns is both visible and enabled,
\* whichever strategy produced it, and it returns none only when no
\* strategy has a visible and enabled element to give.
C22_ReturnsVisibleEnabled ==
    fpc = "returned" =>
        /\ fres # 0 => fpage[fres].displayed /\ fpage[fres].enabled
        /\ (fres = 0 /\ fraise = 0) =>
               \A i \in 1..Len(fpage) :
                   ~(IsTriggerCandidate(fpage[i]) /\ fpage[i].displayed
                     /\ fpage[i].enabled)

\* the first strategy that does not raise, 0 if all four raise
FirstSuccess(c) ==
    IF c.native = 0 THEN 1
    ELSE IF ~c.script THEN 2
    ELSE IF ~c.events THEN 3
    ELSE IF ~c.chain THEN 4
    ELSE 0

\* the strategies 1..n in their order
UpTo(n) == [i \in 1..n |-> i]

\* C23: click_hard attempts its strategies in the order 1, 2, 3, 4; one is
\* attempted only if every earlier one raised and none after the first
\* that succeeds; it returns true exactly when one strategy completed
\* without raising, and false when all four raised.
C23_EscalatesUntilSuccess ==
    /\ \E n \in 0..4 : ctried = UpTo(n)
    /\ \A k \in 1..Len(ctried) : \A j \in 1..(k - 1) : RaisesOf(cdriver)[j]
    /\ cpc = "returned" =>
           /\ ctried = UpTo(IF FirstSuccess(cdriver) = 0 THEN 4
                            ELSE FirstSuccess(cdriver))
           /\ cret <=> FirstSuccess(cdriver) # 0

\* the native click raises in its clickability wait, the scripted click
\* succeeds: two attempts, the result is true
C23_Witness ==
    /\ cpc = "returned"
    /\ cdriver = [native |-> 3, script |-> FALSE, events |-> TRUE, chain |-> TRUE]
    /\ ctried = <<1, 2>>
    /\ cret

\* the calls of click_hard one round can make, in their order
RoundClicks ==
    {<<>>, <<"first">>, <<"failed">>, <<"failed", "retry">>, <<"first", "extra">>,
     <<"failed", "extra">>, <<"failed", "retry", "extra">>}

\* C24: one round calls click_hard at most three times: once on the
\* located trigger, a second time only after the first call returned
\* false, and a third time only in a round that raised the stagnation
\* counter from 0 to 1; the poll that follows the third call is given at
\* most min(10, W/2) seconds; a round that raises the counter to 2 or 3
\* makes no third call.
C24_AtMostThreeClicks ==
    watch =>
        /\ clicks \in RoundClicks
        /\ (\E i \in 1..Len(clicks) : clicks[i] = "extra") => no_growth_rounds <= 1
        /\ pc = "poll2" =>
               /\ clicks # <<>> /\ clicks[Len(clicks)] = "extra"
               /\ no_growth_rounds = 1 /\ dry = 0
               /\ end - now <= 10
               /\ 2 * (end - now) <= slow_wait

\* a round of three calls: the first returned false, the trigger was found
\* again twice, and the secondary poll is running
C24_Witness ==
    /\ watch
    /\ clicks = <<"failed", "retry", "extra">>
    /\ pc = "poll2"
    /\ end = now + 4
    /\ slow_wait = 8

\* C25: the stagnation counter lies in 0..3; when a round is over it is 0
\* if unique grew in the round (in either poll) and else 1 higher than
\* before, so it equals the number of the most recent rounds in a row
\* without growth; the loop goes on only below 3 and stops in the first
\* round that ends with the counter at 3.
C25_CounterCountsDryRounds ==
    watch =>
        /\ no_growth_rounds \in 0..3
        /\ pc = "loop" => no_growth_rounds = dry /\ dry < 3
        /\ exitPath = "stagnation" => no_growth_rounds = dry /\ dry = 3
        /\ (pc = "loop" /\ rounds > 0 /\ Cardinality(unique) > head) =>
               no_growth_rounds = 0

\* unique grew in the first or the second round and not in the third: the
\* counter is 1 after three rounds and the loop goes on
C25_Witness ==
    /\ watch
    /\ pc = "loop"
    /\ rounds = 3
    /\ Cardinality(unique) > Cardinality(initial)
    /\ Cardinality(unique) = head
    /\ no_growth_rounds = 1

\* a step of a poll that scanned the page (a pass takes time)
Scanned == pc \in {"poll", "poll2"} /\ now' > now

\* C26: the discovered set never gets smaller; after the first scan it is
\* replaced only by a scan with strictly more links, and the poll stops at
\* that scan; a scan with as many or fewer links leaves it unchanged,
\* whatever its members.
C26_ReplacedOnlyByLargerScan ==
    [][watch =>
          /\ Cardinality(unique') >= Cardinality(unique)
          /\ (unique' # unique /\ pc # "start") =>
                 /\ Scanned
                 /\ unique' = now_unique'
                 /\ Cardinality(now_unique') > Cardinality(unique)
          /\ (Scanned /\ Cardinality(now_unique') > Cardinality(unique)) =>
                 unique' = now_unique' /\ pc' = "loop"
          /\ (Scanned /\ Cardinality(now_unique') <= Cardinality(unique)) =>
                 unique' = unique /\ pc' = pc]_vars

\* a scan of the primary poll saw as many links as unique holds, not the
\* same ones, and unique is as it was
C26_Witness ==
    /\ watch
    /\ pc = "poll"
    /\ unique = initial
    /\ unique # {}
    /\ Cardinality(now_unique) = Cardinality(unique)
    /\ now_unique \cap unique = {}

C28_FollowUpNeverChanges ==
    /\ npc \in {"returned", "named"} =>
           vname = DefaultName \/ ~LooksGeneric(vname)
    /\ npc = "named" => raw_name = vname

C28_Witness ==
    /\ npc = "named"
    /\ vname = DefaultName
    /\ LooksGeneric(vname)
    /\ ExpectedSlug(vurl) = <<>>
    /\ raw_name = DefaultName

\* C29: a destination file never holds a part of its image, it changes only
\* by the rename that ends a whole download, a failed or interrupted
\* download leaves the destination absent, a failure is followed by the
\* images after it, and a run skips exactly the destinations that exist
\* with a size above zero.
C29_DestinationWholeOrAbsent ==
    wpc # "idle" => \A i \in 1..MaxImages :
        /\ dest[i] \in {Absent, body[i]}
        /\ dest[i] # before[i] => outcome[i] = "fetched"
        /\ outcome[i] \in {"failed", "cut"} => dest[i] = Absent
        /\ wpc = "done" => outcome[i] # "none"
        /\ outcome[i] # "none" => (outcome[i] = "skipped" <=> before[i] > 0)

\* C29 amended: as C29, but a failed or interrupted download leaves the
\* destination as the run found it, which is absent or, after an earlier
\* run downloaded an empty body, an empty file.
C29_DestinationWholeOrUntouched ==
    wpc # "idle" => \A i \in 1..MaxImages :
        /\ dest[i] \in {Absent, body[i]}
        /\ dest[i] # before[i] => outcome[i] = "fetched"
        /\ outcome[i] \in {"failed", "cut"} =>
               dest[i] = before[i] /\ before[i] \in {Absent, 0}
        /\ wpc = "done" => outcome[i] # "none"
        /\ outcome[i] # "none" => (outcome[i] = "skipped" <=> before[i] > 0)

C29_Witness ==
    /\ run = "later"
    /\ wpc = "done"
    /\ body = <<0, 2>>
    /\ before = <<0, Absent>>
    /\ tmp = <<Absent, 1>>
    /\ outcome = <<"failed", "failed">>
    /\ dest = <<0, Absent>>

=============================================================================
